---------------------------- MODULE Spec2Model ----------------------------
(***************************************************************************)
(* A model of the LittleHeroes chat backend: the request handler           *)
(* handleChatRequest (backend/api/chat_handler), the two provider clients  *)
(* callOpenAI and callGemini, the pipeline loaders loadPrimaryRag,         *)
(* loadPipelineInputs, buildRefusalText, and the safety filter             *)
(* enforceSafety.                                                          *)
(*                                                                         *)
(* A text (a JavaScript string) is a sequence of lexemes: indivisible      *)
(* fragments such as a word, a blank, a line break or a status code.       *)
(* String.includes is containment of a contiguous run of lexemes,          *)
(* toLowerCase maps every lexeme to its lower-case form, trim strips       *)
(* white-space lexemes at both ends.                                       *)
(***************************************************************************)
EXTENDS Naturals, Sequences, FiniteSets, TLC

VARIABLES
    pc,          \* position of the request inside handleChatRequest
    req,         \* what the handler has read of the request so far
    pipeline,    \* result of loadPipelineInputs
    rawAnswer,   \* chat_handler: let rawAnswer
    openAi,      \* outcome of callOpenAI as the handler saw it
    gemini,      \* local state and outcome of callGemini
    calls,       \* network requests issued so far, in order
    log,         \* lines appended to unanswered_questions.jsonl
    res,         \* the response sent, or NoResponse
    events,      \* logger calls and responses of the handler, in program order
    filter,      \* harness around the pure function enforceSafety
    builder,     \* harness around renderTemplate and buildRagOnlyPrompt
    server       \* the server process: which request runs, the others in flight

vars == <<pc, req, pipeline, rawAnswer, openAi, gemini, calls, log, res, events, filter, builder, server>>

handlerVars == <<pc, req, pipeline, rawAnswer, openAi, gemini, calls, log, res, events>>

(***************************************************************************)
(* Bounds of the model.                                                    *)
(***************************************************************************)
\* longest answer, in lexemes, handed to the safety filter harness
MaxLen == 3

\* longest conversation history, in turns, handed to the providers' clients
MaxTurns == 2

(***************************************************************************)
(* Texts.                                                                  *)
(***************************************************************************)
\* String.prototype.toLowerCase on one lexeme
LowerLexeme(c) ==
    CASE c = "War"   -> "war"
      [] c = "WAR"   -> "war"
      [] c = "Phone" -> "phone"
      [] c = "PHONE" -> "phone"
      [] c = "Email" -> "email"
      [] c = "Last"  -> "last"
      [] c = "Name"  -> "name"
      [] c = "Sorry" -> "sorry"
      [] c = "Hello" -> "hello"
      [] c = "Leo"   -> "leo"
      [] OTHER       -> c

toLowerCase(text) == [i \in 1..Len(text) |-> LowerLexeme(text[i])]

\* String.prototype.includes: pattern occurs as a contiguous run
includes(text, pattern) ==
    \E i \in 0..Len(text) :
        /\ i + Len(pattern) <= Len(text)
        /\ SubSeq(text, i + 1, i + Len(pattern)) = pattern

IsSpace(c) == c \in {" ", "\n", "\r", "\t"}

RECURSIVE trimStart(_)
trimStart(text) ==
    IF text # <<>> /\ IsSpace(Head(text)) THEN trimStart(Tail(text)) ELSE text

RECURSIVE trimEnd(_)
trimEnd(text) ==
    IF text # <<>> /\ IsSpace(text[Len(text)])
    THEN trimEnd(SubSeq(text, 1, Len(text) - 1))
    ELSE text

\* String.prototype.trim
trim(text) == trimEnd(trimStart(text))

\* text.replace(/\s+/g, " "): every run of white space becomes one blank
RECURSIVE collapseSpaces(_)
collapseSpaces(text) ==
    IF text = <<>> THEN <<>>
    ELSE IF IsSpace(Head(text))
         THEN <<" ">> \o collapseSpaces(trimStart(text))
         ELSE <<Head(text)>> \o collapseSpaces(Tail(text))

\* chat_handler: const normalize = (text) => String(text || "").trim().replace(/\s+/g, " ")
normalize(text) == collapseSpaces(trim(text))

\* all texts of at most n lexemes over the alphabet S
TextsUpTo(S, n) == UNION {[1..k -> S] : k \in 0..n}

(***************************************************************************)
(* The safety filter (ai/pipelines/answer_controller).                     *)
(***************************************************************************)
\* some(): true when one topic, lower-cased, occurs in the lower-cased text
containsForbiddenTopic(text, topics) ==
    LET lower == toLowerCase(text)
    IN  \E k \in 1..Len(topics) : includes(lower, toLowerCase(topics[k]))

asksForPersonalInfo(text) ==
    LET lower == toLowerCase(text)
    IN  \/ includes(lower, <<"address">>)
        \/ includes(lower, <<"phone">>)
        \/ includes(lower, <<"email">>)
        \/ includes(lower, <<"last", " ", "name">>)
        \/ includes(lower, <<"full", " ", "name">>)

\* a filter that also blocks on the guardrails' virtue keywords
enforceSafetyWithGuardrails(answer, safety, guardrails, refusalText) ==
    IF containsForbiddenTopic(answer, safety.forbiddenTopics) THEN refusalText
    ELSE IF asksForPersonalInfo(answer) THEN refusalText
    ELSE IF containsForbiddenTopic(answer, guardrails.virtue_alignment)
         THEN refusalText
    ELSE answer

\* a filter that skips the forbidden-topic check
enforceSafetyNoTopics(answer, safety, guardrails, refusalText) ==
    IF asksForPersonalInfo(answer) THEN refusalText ELSE answer

\* a filter that puts the refusal text in front of what it refuses
enforceSafetyPrefixing(answer, safety, guardrails, refusalText) ==
    IF containsForbiddenTopic(answer, safety.forbiddenTopics)
       \/ asksForPersonalInfo(answer)
    THEN refusalText \o answer
    ELSE answer

enforceSafety(answer, safety, guardrails, refusalText) ==
    IF containsForbiddenTopic(answer, safety.forbiddenTopics) THEN refusalText
    ELSE IF asksForPersonalInfo(answer) THEN refusalText
    ELSE answer

\* pipeline_runner: applySafety delegates to enforceSafety
applySafety(answer, safety, guardrails, refusalText) ==
    enforceSafety(answer, safety, guardrails, refusalText)


(***************************************************************************)
(* The safety filter on its own: inputs are drawn in the initial state,    *)
(* Enforce applies the filter, EnforceAgain applies it to its own output.  *)
(***************************************************************************)
SafetyAlphabet == {"Hello", "War", "war", "Phone", "last", " ", "name"}

SafetyAnswers == TextsUpTo(SafetyAlphabet, MaxLen)

\* forbidden_topics.json: hard_blocked_topics, also with an empty entry
SafetyTopicLists ==
    { <<>>,
      << <<"war">> >>,
      << <<"War">>, <<"last", " ">> >>,
      << <<>> >> }

SafetyRefusalTexts ==
    { <<>>, <<"Sorry">>, <<"Sorry", " ", "war">>, <<"my", " ", "Phone">> }

SafetyGuardrails ==
    { [virtue_alignment |-> <<>>],
      [virtue_alignment |-> << <<"hello">> >>] }

NoFilter ==
    [stage |-> "off", answer |-> <<>>, safety |-> [forbiddenTopics |-> <<>>],
     guardrails |-> [virtue_alignment |-> <<>>], refusalText |-> <<>>,
     once |-> <<>>, twice |-> <<>>]

Enforce ==
    /\ filter.stage = "input"
    /\ filter' = [filter EXCEPT
            !.stage = "once",
            !.once = enforceSafety(filter.answer, filter.safety,
                                   filter.guardrails, filter.refusalText)]
    /\ UNCHANGED <<handlerVars, builder, server>>

EnforceAgain ==
    /\ filter.stage = "once"
    /\ filter' = [filter EXCEPT
            !.stage = "twice",
            !.twice = enforceSafety(filter.once, filter.safety,
                                    filter.guardrails, filter.refusalText)]
    /\ UNCHANGED <<handlerVars, builder, server>>

(***************************************************************************)
(* Sequence helpers.                                                       *)
(***************************************************************************)
\* Array.prototype.join(sep) on an array of texts
RECURSIVE join(_, _)
join(items, sep) ==
    IF items = <<>> THEN <<>>
    ELSE IF Len(items) = 1 THEN items[1]
    ELSE items[1] \o sep \o join(Tail(items), sep)

\* Array.prototype.filter(Boolean) on an array of texts: drops the empty ones
RECURSIVE filterNonEmpty(_)
filterNonEmpty(items) ==
    IF items = <<>> THEN <<>>
    ELSE IF Head(items) = <<>> THEN filterNonEmpty(Tail(items))
    ELSE <<Head(items)>> \o filterNonEmpty(Tail(items))

\* Array.prototype.indexOf: first position of value, 0 when absent
indexOf(items, value) ==
    IF \E k \in 1..Len(items) : items[k] = value
    THEN CHOOSE k \in 1..Len(items) :
            items[k] = value /\ \A j \in 1..(k - 1) : items[j] # value
    ELSE 0

(***************************************************************************)
(* ContextLoader (ai/pipelines/retrieve_primary).                          *)
(***************************************************************************)
\* what JSON.parse gives for "{}"; an absent field is an empty text or list;
\* json tells what kind of JSON value the document is
EmptyIdentity ==
    [json |-> "object",
     character_id |-> <<>>, name |-> <<>>, background |-> <<>>,
     virtues |-> <<>>, teaching_guidance |-> <<>>, coach_lines |-> <<>>,
     quotes |-> <<>>, daily_missions |-> <<>>]

IdentityLeo ==
    [json |-> "object",
     character_id |-> <<"leo-01">>, name |-> <<"Leo">>,
     background |-> << [json |-> "object", fact |-> <<"Leo", " ", "is", " ", "brave">>],
                      [json |-> "object", fact |-> <<>>],
                      [json |-> "string", fact |-> <<"Leo", " ", "helps">>] >>,
     virtues |-> << [name |-> <<"courage">>, description |-> <<"stands", " ", "up">>] >>,
     teaching_guidance |-> <<>>, coach_lines |-> << <<"You", " ", "can">> >>,
     quotes |-> <<>>, daily_missions |-> <<>>]

EmptyStyle == [json |-> "object", tone |-> <<>>]

StylePlayful == [json |-> "object", tone |-> <<"playful">>]

EmptyGuardrails == [json |-> "object", virtue_alignment |-> <<>>]

GuardrailsKind ==
    [json |-> "object", virtue_alignment |-> << <<"always", " ", "kind">> >>]

\* documents of an unexpected shape: the JSON value null, the JSON number 5
\* (every property of which is undefined), and an identity whose background
\* list has a null entry
IdentityNull == [EmptyIdentity EXCEPT !.json = "null"]

IdentityNumber == [EmptyIdentity EXCEPT !.json = "number"]

IdentityNullFact ==
    [IdentityLeo EXCEPT
        !.background = << [json |-> "object", fact |-> <<"Leo", " ", "is", " ", "brave">>],
                          [json |-> "null", fact |-> <<>>] >>]

StyleNull == [EmptyStyle EXCEPT !.json = "null"]

StyleNumber == [EmptyStyle EXCEPT !.json = "number"]

GuardrailsNull == [EmptyGuardrails EXCEPT !.json = "null"]

GuardrailsNumber == [EmptyGuardrails EXCEPT !.json = "number"]

\* a knowledge file: missing, unparsable, or holding a JSON value
IdentityFiles ==
    {[state |-> "missing", value |-> EmptyIdentity],
     [state |-> "malformed", value |-> EmptyIdentity],
     [state |-> "json", value |-> IdentityLeo],
     [state |-> "json", value |-> IdentityNull],
     [state |-> "json", value |-> IdentityNullFact]}

StyleFiles ==
    {[state |-> "missing", value |-> EmptyStyle],
     [state |-> "json", value |-> StylePlayful]}

GuardrailsFiles ==
    {[state |-> "missing", value |-> EmptyGuardrails],
     [state |-> "json", value |-> GuardrailsKind]}

\* readJsonSafe: {} for a missing or unparsable file, the parsed value otherwise
readJsonSafe(file, emptyObject) ==
    IF file.state = "json" THEN file.value ELSE emptyObject

\* JSON.stringify(data, null, 2) of an identity or style document
stringify(data, emptyObject) ==
    IF data.json = "null" THEN <<"null">>
    ELSE IF data.json = "number" THEN <<"5">>
    ELSE IF data = emptyObject THEN <<"{}">>
    ELSE IF "tone" \in DOMAIN data
         THEN <<"{", "\n", "\"tone\": ">> \o data.tone \o <<"\n", "}">>
         ELSE <<"{", "\n", "\"character_id\": ">> \o data.character_id
              \o <<",", "\n", "\"name\": ">> \o data.name \o <<"\n", "}">>

\* formatSection: `## ${title}\n${JSON.stringify(data, null, 2)}\n`
formatSection(title, data, emptyObject) ==
    <<"## ", title, "\n">> \o stringify(data, emptyObject) \o <<"\n">>

\* formatVirtues: "" without entries, a markdown list otherwise
formatVirtues(virtues) ==
    IF virtues = <<>> THEN <<>>
    ELSE <<"## ", "Character Virtues", "\n">>
         \o join([k \in 1..Len(virtues) |->
                    <<"- **">> \o virtues[k].name \o <<"**: ">>
                    \o virtues[k].description], <<"\n">>)
         \o <<"\n">>

\* formatArraySection: "" for an empty list, a markdown list otherwise
formatArraySection(title, items) ==
    IF items = <<>> THEN <<>>
    ELSE <<"## ", title, "\n">>
         \o join([k \in 1..Len(items) |-> <<"- ">> \o items[k]], <<"\n">>)
         \o <<"\n">>

\* loadPrimaryRag: the context and guardrails of a character. threw tells
\* that a TypeError left the function: identity.character_id read on null
\* (line 63) or item.fact read on a null entry of the background (line 69)
loadPrimaryRag(characterSlug, identityFile, styleFile, guardrailsFile) ==
    LET identity   == readJsonSafe(identityFile, EmptyIdentity)
        style      == readJsonSafe(styleFile, EmptyStyle)
        guardrails == readJsonSafe(guardrailsFile, EmptyGuardrails)
        threw ==
            \/ identity.json = "null"
            \/ \E k \in 1..Len(identity.background) :
                    identity.background[k].json = "null"
        characterId   == IF identity.character_id # <<>>
                         THEN identity.character_id ELSE characterSlug
        characterName == IF identity.name # <<>>
                         THEN identity.name ELSE characterSlug
        backgroundFacts ==
            join(filterNonEmpty([k \in 1..Len(identity.background) |->
                                    identity.background[k].fact]), <<"\n">>)
        sections ==
            << formatSection("Identity", identity, EmptyIdentity),
               formatSection("Style", style, EmptyStyle),
               IF backgroundFacts # <<>>
               THEN <<"## ", "Background Facts", "\n">> \o backgroundFacts \o <<"\n">>
               ELSE <<>>,
               formatVirtues(identity.virtues),
               formatArraySection("Teaching Guidance", identity.teaching_guidance),
               formatArraySection("Coach Lines", identity.coach_lines),
               formatArraySection("Quotes", identity.quotes),
               formatArraySection("Daily Missions", identity.daily_missions) >>
    IN  IF threw
        THEN [threw |-> TRUE, context |-> <<>>, guardrails |-> guardrails,
              characterId |-> <<>>, characterName |-> <<>>]
        ELSE [threw |-> FALSE,
              context |-> join(filterNonEmpty(sections), <<"\n">>),
              guardrails |-> guardrails,
              characterId |-> characterId,
              characterName |-> characterName]

(***************************************************************************)
(* renderTemplate (ai/pipelines/answer_controller). A template is a text   *)
(* in which "{{", "}}" and "." are lexemes of their own and a key is a     *)
(* word lexeme; a template variable holds a JavaScript value.              *)
(***************************************************************************)
Value(type, text, items, fields) ==
    [type |-> type, text |-> text, items |-> items, fields |-> fields]

Undefined == Value("undefined", <<>>, <<>>, <<>>)

Null == Value("null", <<>>, <<>>, <<>>)

\* a string
Str(text) == Value("string", text, <<>>, <<>>)

\* an array of strings
Arr(items) == Value("array", <<>>, items, <<>>)

\* an object with the own properties fields
Obj(fields) == Value("object", <<>>, <<>>, fields)

\* a function inherited under the name
Fn(name) == Value("function", <<name>>, <<>>, <<>>)

\* members every object and array inherits from Object.prototype
ObjectPrototype == {"constructor", "toString", "valueOf", "hasOwnProperty"}

\* the lexemes the class \w matches from end to end
WordLexemes ==
    { "character", "context", "question", "refusal_text", "guardrails",
      "constraints", "virtue_alignment", "redirection_style", "nickname",
      "length", "0", "1" } \cup ObjectPrototype

IsWord(c) == c \in WordLexemes

\* the position in items an index key names, 0 when it names none
arrayIndex(key) == CASE key = "0" -> 1 [] key = "1" -> 2 [] OTHER -> 0

\* key in value, for an object or an array
hasProperty(value, key) ==
    CASE value.type = "object" ->
            key \in DOMAIN value.fields \/ key \in ObjectPrototype
      [] value.type = "array" ->
            \/ key = "length"
            \/ arrayIndex(key) \in 1..Len(value.items)
            \/ key \in ObjectPrototype
      [] OTHER -> FALSE

\* value[key], for an object or an array: an own property, an inherited
\* member, or undefined
property(value, key) ==
    CASE value.type = "object" /\ key \in DOMAIN value.fields -> value.fields[key]
      [] value.type = "array" /\ key = "length" ->
            Str(<<ToString(Len(value.items))>>)
      [] value.type = "array" /\ arrayIndex(key) \in 1..Len(value.items) ->
            Str(value.items[arrayIndex(key)])
      [] value.type \in {"object", "array"} /\ key \in ObjectPrototype -> Fn(key)
      [] OTHER -> Undefined

\* String(value)
String(value) ==
    CASE value.type = "string"    -> value.text
      [] value.type = "array"     -> join(value.items, <<",">>)
      [] value.type = "object"    -> <<"[object Object]">>
      [] value.type = "function"  ->
            <<"function ", value.text[1], "() { [native code] }">>
      [] value.type = "null"      -> <<"null">>
      [] OTHER                    -> <<"undefined">>

\* \w+ at the head of text: the key it spells and what follows it
RECURSIVE takeWord(_, _)
takeWord(text, key) ==
    IF text # <<>> /\ IsWord(Head(text))
    THEN takeWord(Tail(text), key \o Head(text))
    ELSE [key |-> key, rest |-> text]

\* /\{\{\s*(\w+)\s*\}\}/ tried at the head of text
matchKey(text) ==
    LET w     == takeWord(trimStart(Tail(text)), "")
        after == trimStart(w.rest)
    IN  IF Head(text) = "{{" /\ w.key # "" /\ after # <<>> /\ Head(after) = "}}"
        THEN [matched |-> TRUE, key |-> w.key, rest |-> Tail(after)]
        ELSE [matched |-> FALSE, key |-> "", rest |-> text]

\* template.replace(/\{\{\s*(\w+)\s*\}\}/g, ...): templateVars[key], "" when undefined
RECURSIVE replaceKeys(_, _)
replaceKeys(text, templateVars) ==
    IF text = <<>> THEN <<>>
    ELSE LET m == matchKey(text)
             value == property(Obj(templateVars), m.key)
         IN  IF m.matched
             THEN (IF value.type = "undefined" THEN <<>> ELSE String(value))
                  \o replaceKeys(m.rest, templateVars)
             ELSE <<Head(text)>> \o replaceKeys(Tail(text), templateVars)

\* [\w.]+ at the head of text, split at the dots: the keys, how many
\* lexemes they took, and what follows
RECURSIVE takePath(_, _, _)
takePath(text, keys, taken) ==
    IF text # <<>> /\ Head(text) = "."
    THEN takePath(Tail(text), Append(keys, ""), taken + 1)
    ELSE IF text # <<>> /\ IsWord(Head(text))
    THEN takePath(Tail(text), [keys EXCEPT ![Len(keys)] = @ \o Head(text)], taken + 1)
    ELSE [keys |-> keys, taken |-> taken, rest |-> text]

\* /\{\{\s*([\w.]+)\s*\}\}/ tried at the head of text
matchPath(text) ==
    LET p     == takePath(trimStart(Tail(text)), <<"">>, 0)
        after == trimStart(p.rest)
    IN  IF Head(text) = "{{" /\ p.taken > 0 /\ after # <<>> /\ Head(after) = "}}"
        THEN [matched |-> TRUE, keys |-> p.keys, rest |-> Tail(after)]
        ELSE [matched |-> FALSE, keys |-> <<>>, rest |-> text]

\* the for loop over the keys: found with the value reached, or not found
RECURSIVE traverse(_, _)
traverse(value, keys) ==
    IF keys = <<>> THEN [found |-> TRUE, value |-> value]
    ELSE IF value.type \in {"object", "array"} /\ hasProperty(value, Head(keys))
    THEN traverse(property(value, Head(keys)), Tail(keys))
    ELSE [found |-> FALSE, value |-> Undefined]

\* what the second pass puts in the place of a path
pathText(templateVars, keys) ==
    LET end == traverse(Obj(templateVars), keys)
    IN  IF ~end.found THEN <<>>
        ELSE IF end.value.type = "array" THEN join(end.value.items, <<". ">>)
        ELSE IF end.value.type \in {"undefined", "null"} THEN <<>>
        ELSE String(end.value)

\* result.replace(/\{\{\s*([\w.]+)\s*\}\}/g, ...)
RECURSIVE replacePaths(_, _)
replacePaths(text, templateVars) ==
    IF text = <<>> THEN <<>>
    ELSE LET m == matchPath(text)
         IN  IF m.matched
             THEN pathText(templateVars, m.keys) \o replacePaths(m.rest, templateVars)
             ELSE <<Head(text)>> \o replacePaths(Tail(text), templateVars)

renderTemplate(template, templateVars) == replacePaths(replaceKeys(template, templateVars), templateVars)

(***************************************************************************)
(* PromptBuilder and the loaders of answer_controller / pipeline_runner.   *)
(***************************************************************************)
\* raw.split(/\r?\n/): the lines of a text
RECURSIVE splitLines(_, _)
splitLines(text, line) ==
    IF text = <<>> THEN <<line>>
    ELSE IF Head(text) = "\n" THEN <<line>> \o splitLines(Tail(text), <<>>)
    ELSE IF Head(text) = "\r" /\ Len(text) > 1 /\ text[2] = "\n"
         THEN <<line>> \o splitLines(Tail(Tail(text)), <<>>)
    ELSE splitLines(Tail(text), Append(line, Head(text)))

\* buildRefusalText: the trimmed non-blank lines of refusal.txt
refusalOptions(raw) ==
    LET lines == splitLines(raw, <<>>)
    IN  filterNonEmpty([k \in 1..Len(lines) |-> trim(lines[k])])

\* a refusal text that is the first line of refusal.txt as it stands
buildRefusalTextFirstLine(raw, index) == splitLines(raw, <<>>)[1]

\* buildRefusalText: "" without options, else options[index] for the index
\* Math.floor(Math.random() * options.length) drew
buildRefusalText(raw, index) ==
    LET options == refusalOptions(raw)
    IN  IF Len(options) = 0 THEN <<>> ELSE options[index]

\* the indexes Math.floor(Math.random() * n) can give
randomIndexes(raw) ==
    IF Len(refusalOptions(raw)) = 0 THEN {1} ELSE 1..Len(refusalOptions(raw))

\* prompts/refusal.txt: missing (read as ""), one line, or several lines
RefusalSources ==
    { <<>>,
      <<"Sorry", "\n">>,
      <<" ", "Sorry", " ", "\r", "\n", " ", "\n", "Ask", " ", "a", " ", "grown-up">> }

\* safety/forbidden_topics.json
ForbiddenFiles ==
    {[state |-> "missing", value |-> <<>>],
     [state |-> "json", value |-> << <<"War">> >>]}

\* loadSafetyConfig
loadSafetyConfig(forbiddenFile) ==
    [forbiddenTopics |-> IF forbiddenFile.state = "json"
                         THEN forbiddenFile.value ELSE <<>>,
     childSafeRules |-> <<>>,
     escalationPolicy |-> <<>>]

\* ai/prompts: system.txt, character.txt and answer_with_rag.txt as readPrompt
\* gives them, "" for a missing file
PromptFiles ==
    [system    |-> <<"Answer", " ", "as", " ", "the", " ", "hero">>,
     character |-> <<"You", " ", "are", " ", "{{", "character", "}}">>,
     answer    |-> <<"{{", "context", "}}", "\n", "Q: ", "{{", " ", "question", " ",
                     "}}", "\n", "Rules: ",
                     "{{", "guardrails", ".", "constraints", ".",
                     "virtue_alignment", "}}">>]

NoPromptFiles == [system |-> <<>>, character |-> <<>>, answer |-> <<>>]

\* input.guardrails || {} as the value of a template variable; the number
\* 5 renders and traverses as the text "5" does
guardrailsValue(guardrails) ==
    IF guardrails.json = "number" THEN Str(<<"5">>)
    ELSE IF guardrails.virtue_alignment = <<>> THEN Obj(<<>>)
    ELSE Obj([k \in {"constraints"} |->
                Obj([j \in {"virtue_alignment"} |->
                        Arr(guardrails.virtue_alignment)])])

\* a prompt builder that measures the context as it stands
buildRagOnlyPromptUntrimmed(input, prompts) ==
    [system |-> prompts.system, user |-> prompts.answer,
     shouldRefuse |-> Len(input.context) = 0]

\* buildRagOnlyPrompt: the system and user prompts, and shouldRefuse, which
\* is context.trim().length === 0
buildRagOnlyPrompt(input, prompts) ==
    LET context == trim(input.context)
        shouldRefuse == Len(context) = 0
        system ==
            join(filterNonEmpty(
                    << prompts.system,
                       renderTemplate(prompts.character,
                                      [k \in {"character"} |-> Str(input.character)]) >>),
                 <<"\n", "\n">>)
        user ==
            renderTemplate(prompts.answer,
                [k \in {"context", "question", "character", "refusal_text",
                         "guardrails"} |->
                    CASE k = "context"      -> Str(context)
                      [] k = "question"     -> Str(input.question)
                      [] k = "character"    -> Str(input.character)
                      [] k = "refusal_text" -> Str(input.refusalText)
                      [] OTHER              -> guardrailsValue(input.guardrails)])
    IN  [system |-> system, user |-> user, shouldRefuse |-> shouldRefuse]

\* loadPipelineInputs
loadPipelineInputs(characterSlug, message, files, index) ==
    LET primary     == loadPrimaryRag(characterSlug, files.identity,
                                      files.style, files.guardrails)
        safety      == loadSafetyConfig(files.forbidden)
        refusalText == buildRefusalText(files.refusal, index)
        prompt      == buildRagOnlyPrompt(
                            [question |-> message, context |-> primary.context,
                             character |-> primary.characterName,
                             refusalText |-> refusalText,
                             guardrails |-> primary.guardrails,
                             conversationHistory |-> <<>>],
                            files.prompts)
    IN  [prompt |-> prompt, primary |-> primary, safety |-> safety,
         refusalText |-> refusalText]

NoPipeline ==
    [prompt |-> [system |-> <<>>, user |-> <<>>, shouldRefuse |-> FALSE],
     primary |-> [threw |-> FALSE, context |-> <<>>, guardrails |-> EmptyGuardrails,
                  characterId |-> <<>>, characterName |-> <<>>],
     safety |-> [forbiddenTopics |-> <<>>, childSafeRules |-> <<>>,
                 escalationPolicy |-> <<>>],
     refusalText |-> <<>>]

(***************************************************************************)
(* Provider clients: what one network exchange can come back with, and     *)
(* what the client makes of it.                                            *)
(***************************************************************************)
\* `${response.statusCode}` for the status codes the model draws
statusText(status) ==
    CASE status = 200 -> "200"
      [] status = 404 -> "404"
      [] status = 429 -> "429"
      [] status = 500 -> "500"
      [] OTHER        -> "0"

\* an Error object: message, the statusCode attached to it (0: none), and
\* id, the network request that raised it (0: raised before any request)
Error(message, statusCode, id) ==
    [message |-> message, statusCode |-> statusCode, id |-> id]

Resolved(text) == [ok |-> TRUE, text |-> text, error |-> Error(<<>>, 0, 0)]

Rejected(error) == [ok |-> FALSE, text |-> <<>>, error |-> error]

\* texts a provider can put in a successful response body
AnswerTexts ==
    { <<>>,
      <<" ", "Good morning!", "\n">>,
      <<"a", " ", "War", " ", "story">>,
      <<"Sorry">>,
      <<"your", " ", "Phone">> }

\* one exchange with api.openai.com
OpenAIOutcomes ==
    {[kind |-> "http", status |-> 200, body |-> t] : t \in AnswerTexts}
    \cup {[kind |-> "http", status |-> 429, body |-> <<"rate", " ", "limit">>],
          [kind |-> "http", status |-> 500, body |-> <<"type", " ", "insufficient_quota">>],
          [kind |-> "http", status |-> 500, body |-> <<"server", " ", "error">>],
          [kind |-> "badjson", status |-> 200, body |-> <<"Unexpected", " ", "token">>],
          [kind |-> "neterror", status |-> 0, body |-> <<"ECONNRESET">>],
          [kind |-> "neterror", status |-> 0, body |-> <<>>]}

\* callOpenAI after the request was sent: the promise's settlement
callOpenAI(outcome, id) ==
    IF outcome.kind = "neterror" THEN Rejected(Error(outcome.body, 0, id))
    ELSE IF outcome.status < 200 \/ outcome.status >= 300
    THEN Rejected(Error(<<"OpenAI error ", statusText(outcome.status), ": ">>
                        \o outcome.body, 0, id))
    ELSE IF outcome.kind = "badjson" THEN Rejected(Error(outcome.body, 0, id))
    ELSE Resolved(trim(outcome.body))

\* callOpenAI without OPENAI_API_KEY
MissingOpenAIKey == Rejected(Error(<<"Missing OPENAI_API_KEY">>, 0, 0))

DEFAULT_GEMINI_MODEL == <<"gemini-1.5-flash">>

FALLBACK_MODELS == << <<"gemini-1.5-pro">>, <<"gemini-1.0-pro">> >>

PREFERRED_MODELS == <<DEFAULT_GEMINI_MODEL>> \o FALLBACK_MODELS

\* process.env.GEMINI_MODEL: unset, a fallback model, or a model of its own
GeminiModelEnv == { <<>>, <<"gemini-1.5-pro">>, <<"gemini-exp">> }

\* one exchange with generateContent
GeminiOutcomes ==
    {[kind |-> "http", status |-> 200, body |-> t] : t \in AnswerTexts}
    \cup {[kind |-> "http", status |-> 404, body |-> <<"model", " ", "not", " ", "found">>],
          [kind |-> "http", status |-> 500, body |-> <<"server", " ", "error">>],
          [kind |-> "badjson", status |-> 200, body |-> <<"Unexpected", " ", "token">>],
          [kind |-> "neterror", status |-> 0, body |-> <<>>]}

\* requestGemini: the promise's settlement
requestGemini(outcome, id) ==
    IF outcome.kind = "neterror" THEN Rejected(Error(outcome.body, 0, id))
    ELSE IF outcome.status < 200 \/ outcome.status >= 300
    THEN Rejected(Error(<<"Gemini error ", statusText(outcome.status), ": ">>
                        \o outcome.body, outcome.status, id))
    ELSE IF outcome.kind = "badjson" THEN Rejected(Error(outcome.body, 0, id))
    ELSE Resolved(trim(outcome.body))

\* an entry of the models array the list-models call answers with
ListedModel(name, generates) ==
    [name |-> name, generateContent |-> generates]

\* one exchange with the list-models endpoint
ListOutcomes ==
    {[kind |-> "http", status |-> 500, models |-> <<>>],
     [kind |-> "neterror", status |-> 0, models |-> <<>>],
     [kind |-> "http", status |-> 200, models |-> <<>>],
     [kind |-> "http", status |-> 200, models |->
        << ListedModel(<<"models/", "gemini-1.0-pro">>, FALSE),
           ListedModel(<<>>, TRUE) >>],
     [kind |-> "http", status |-> 200, models |->
        << ListedModel(<<"models/", "gemini-2.0">>, TRUE),
           ListedModel(<<"models/", "gemini-1.0-pro">>, TRUE) >>],
     [kind |-> "http", status |-> 200, models |->
        << ListedModel(<<"models/", "embedding-1">>, FALSE),
           ListedModel(<<"gemini-2.0">>, TRUE) >>]}

\* name.replace(/^models\//, "")
stripModelsPrefix(name) ==
    IF name # <<>> /\ Head(name) = "models/" THEN Tail(name) ELSE name

\* models.filter(generateContent).map(name).filter(length > 0).map(strip)
RECURSIVE availableModels(_)
availableModels(models) ==
    IF models = <<>> THEN <<>>
    ELSE IF Head(models).generateContent /\ Head(models).name # <<>>
         THEN <<stripModelsPrefix(Head(models).name)>> \o availableModels(Tail(models))
         ELSE availableModels(Tail(models))

\* listGeminiModels: the promise's settlement (text: unused, models: the names)
listGeminiModels(outcome, id) ==
    IF outcome.kind = "neterror" THEN Rejected(Error(<<"ECONNRESET">>, 0, id))
    ELSE IF outcome.status < 200 \/ outcome.status >= 300
    THEN Rejected(Error(<<"Gemini list models error ", statusText(outcome.status), ": ">>,
                        0, id))
    ELSE [ok |-> TRUE, text |-> <<>>, error |-> Error(<<>>, 0, 0),
          models |-> availableModels(outcome.models)]

\* callGemini: the candidate list without removing duplicates
candidateModelsWithDuplicates(configured) ==
    <<configured, DEFAULT_GEMINI_MODEL>> \o FALLBACK_MODELS

\* callGemini: [configured, DEFAULT, ...FALLBACK].filter(indexOf(value) === index)
candidateModels(configured) ==
    LET all  == <<configured, DEFAULT_GEMINI_MODEL>> \o FALLBACK_MODELS
        kept == SelectSeq([k \in 1..Len(all) |-> [value |-> all[k], index |-> k]],
                          LAMBDA e : indexOf(all, e.value) = e.index)
    IN  [k \in 1..Len(kept) |-> kept[k].value]

\* callGemini: process.env.GEMINI_MODEL || DEFAULT_GEMINI_MODEL
configuredModel(env) == IF env # <<>> THEN env ELSE DEFAULT_GEMINI_MODEL

(***************************************************************************)
(* handleChatRequest (backend/api/chat_handler).                           *)
(***************************************************************************)
NoResponse ==
    [status |-> 0, answer |-> <<>>, shouldRefuse |-> FALSE, error |-> <<>>]

\* sendJson(res, status, { error })
ErrorResponse(status, error) ==
    [status |-> status, answer |-> <<>>, shouldRefuse |-> FALSE, error |-> error]

\* a 200 response that flags every answer as a refusal
AnswerResponseFlagged(answer, shouldRefuse) ==
    [status |-> 200, answer |-> answer, shouldRefuse |-> TRUE, error |-> <<>>]

\* sendJson(res, 200, { answer, shouldRefuse })
AnswerResponse(answer, shouldRefuse) ==
    [status |-> 200, answer |-> answer, shouldRefuse |-> shouldRefuse, error |-> <<>>]

NoRequest ==
    [method |-> "", url |-> "",
     body |-> [kind |-> "unread", message |-> <<>>, character |-> <<>>],
     message |-> <<>>, characterSlug |-> <<>>,
     files |-> [identity |-> "", style |-> "", guardrails |-> "", refusal |-> <<>>]]

NoOpenAi ==
    [state |-> "idle", keyed |-> FALSE, error |-> Error(<<>>, 0, 0),
     message |-> <<>>, text |-> <<>>]

NoGemini ==
    [state |-> "idle", env |-> <<>>, models |-> <<>>, i |-> 0, lastError |-> <<>>,
     text |-> <<>>, thrown |-> Error(<<>>, 0, 0)]

\* a network request: which provider, which operation, for callGemini the
\* model and whether the candidate loop or the recovery step sent it
Call(to, op, model, phase) ==
    [to |-> to, op |-> op, model |-> model, phase |-> phase,
     outcome |-> "pending", text |-> <<>>]

\* how a settlement is recorded: ok, 404, or error
OutcomeOf(r) ==
    IF r.ok THEN "ok" ELSE IF r.error.statusCode = 404 THEN "404" ELSE "error"

\* the calls with the settlement r of the newest one filled in
Settled(cs, r) ==
    [cs EXCEPT ![Len(cs)].outcome = OutcomeOf(r), ![Len(cs)].text = r.text]

\* what the file system does to one logUnansweredQuestion call: the line is
\* appended, ensureLogFile throws (mkdirSync or writeFileSync fails), or
\* appendFileSync throws
SinkOutcomes == {"appended", "ensure_failed", "append_failed"}

\* new Date().toISOString()
Timestamp == <<"2024-01-01T00:00:00.000Z">>

\* the record the handler hands to logUnansweredQuestion
UnansweredRecord(character, message, reason) ==
    [timestamp |-> Timestamp, character |-> character, message |-> message,
     reason |-> reason]

\* a logger whose catch block throws the error on
logUnansweredQuestionRethrowing(lines, record, sink) ==
    IF record.timestamp = <<>> \/ record.character = <<>>
       \/ record.message = <<>> \/ record.reason = <<>>
    THEN [lines |-> lines, threw |-> FALSE]
    ELSE IF sink = "appended"
    THEN [lines |-> Append(lines, record), threw |-> FALSE]
    ELSE [lines |-> lines, threw |-> TRUE]

\* a logger whose ensureLogFile writes the empty file without asking whether
\* the file exists, so every call starts the file again
logUnansweredQuestionRewriting(lines, record, sink) ==
    IF record.timestamp = <<>> \/ record.character = <<>>
       \/ record.message = <<>> \/ record.reason = <<>>
    THEN [lines |-> lines, threw |-> FALSE]
    ELSE IF sink = "ensure_failed" THEN [lines |-> lines, threw |-> FALSE]
    ELSE IF sink = "append_failed" THEN [lines |-> <<>>, threw |-> FALSE]
    ELSE [lines |-> <<record>>, threw |-> FALSE]

\* logUnansweredQuestion: the lines of the file after the call, and whether
\* an exception left the function. A record with an empty field is dropped;
\* ensureLogFile re-throws into the try block of logUnansweredQuestion, whose
\* catch block swallows that and the failure of appendFileSync alike.
logUnansweredQuestion(lines, record, sink) ==
    IF record.timestamp = <<>> \/ record.character = <<>>
       \/ record.message = <<>> \/ record.reason = <<>>
    THEN [lines |-> lines, threw |-> FALSE]
    ELSE IF sink = "ensure_failed" THEN [lines |-> lines, threw |-> FALSE]
    ELSE IF sink = "append_failed" THEN [lines |-> lines, threw |-> FALSE]
    ELSE [lines |-> Append(lines, record), threw |-> FALSE]

\* an entry of events: a logUnansweredQuestion call with its reason and what
\* the file system did, or a response with its status
LogEvent(reason, sink) ==
    [kind |-> "log", reason |-> reason, sink |-> sink, status |-> 0]

SendEvent(status) ==
    [kind |-> "send", reason |-> <<>>, sink |-> "", status |-> status]

\* the handler's progress through a run of synchronous statements: the log
\* file, the events so far, and whether an exception is propagating
Progress(lines, evs) == [lines |-> lines, events |-> evs, threw |-> FALSE]

\* one logUnansweredQuestion({timestamp, character, message, reason}) statement
LogStatement(st, r, reason, sink) ==
    IF st.threw THEN st
    ELSE LET out == logUnansweredQuestion(
                        st.lines, UnansweredRecord(r.characterSlug, r.message, reason),
                        sink)
         IN  [lines |-> out.lines,
              events |-> Append(st.events, LogEvent(reason, sink)),
              threw |-> out.threw]

\* a sendJson statement ending the handler; an exception that is propagating
\* leaves handleChatRequest instead, and the server's callback does not catch it
SendStatement(st, response) ==
    /\ log' = st.lines
    /\ IF st.threw
       THEN /\ events' = st.events
            /\ pc' = "crashed"
            /\ UNCHANGED res
       ELSE /\ events' = Append(st.events, SendEvent(response.status))
            /\ res' = response
            /\ pc' = "done"

\* a classification that takes every OpenAI HTTP error for a quota error
isQuotaErrorAnyStatus(openAiMessage) ==
    \/ includes(openAiMessage, <<"insufficient_quota">>)
    \/ includes(openAiMessage, <<"OpenAI error ">>)
    \/ includes(openAiMessage, <<"Missing OPENAI_API_KEY">>)

\* chat_handler: const isQuotaError
isQuotaError(openAiMessage) ==
    \/ includes(openAiMessage, <<"insufficient_quota">>)
    \/ includes(openAiMessage, <<"OpenAI error ", "429">>)
    \/ includes(openAiMessage, <<"Missing OPENAI_API_KEY">>)

\* String(error?.message || fallback)
messageOf(error, fallback) ==
    IF error.message # <<>> THEN error.message ELSE <<fallback>>

\* an answer sent as the provider gave it
unfilteredAnswer(raw, p) == raw

\* chat_handler: const safeAnswer = applySafety(rawAnswer, ...)
safeAnswerOf(raw, p) ==
    applySafety(raw, p.safety, p.primary.guardrails, p.refusalText)

\* an error body that names the Secondary failure only
geminiOnlyErrorBody(openAiMessage, fallbackMessage) ==
    <<"Gemini failed: ">> \o fallbackMessage

\* chat_handler: `OpenAI failed: ${openAiMessage}. Gemini failed: ${fallbackMessage}`
bothFailedErrorBody(openAiMessage, fallbackMessage) ==
    <<"OpenAI failed: ">> \o openAiMessage \o <<". Gemini failed: ">> \o fallbackMessage

\* a recovery step that keeps the candidate loop's error
recoveryCatchKeepingFirst(lastError, error) == lastError

\* callGemini: catch (error) { lastError = error; } around the recovery step
recoveryCatch(lastError, error) == <<error>>

\* callGemini: throw lastError || new Error("Gemini failed")
thrownError(lastError) ==
    IF lastError # <<>> THEN lastError[1] ELSE Error(<<"Gemini failed">>, 0, 0)

\* callGemini: PREFERRED_MODELS.find(available.includes) || available[0];
\* <<>> when there is neither
recoveryModel(available) ==
    LET preferred == SelectSeq(PREFERRED_MODELS,
                               LAMBDA m : \E k \in 1..Len(available) : available[k] = m)
    IN  IF preferred # <<>> THEN preferred[1]
        ELSE IF available # <<>> THEN available[1]
        ELSE <<>>

\* a handler that answers first and writes the refusal records afterwards
AnswerRespondingFirst(raw, st, p, r) ==
    LET safeAnswer == safeAnswerOf(raw, p)
        modelRefusal  == normalize(raw) = normalize(p.refusalText)
        safetyRefusal == normalize(safeAnswer) = normalize(p.refusalText)
        st0 == [st EXCEPT !.events = Append(st.events, SendEvent(200))]
    IN  \E sink1 \in (IF modelRefusal THEN SinkOutcomes ELSE {"unused"}),
           sink2 \in (IF safetyRefusal THEN SinkOutcomes ELSE {"unused"}) :
            LET st1 == IF modelRefusal
                       THEN LogStatement(st0, r, <<"model_refusal">>, sink1)
                       ELSE st0
                st2 == IF safetyRefusal
                       THEN LogStatement(st1, r, <<"safety_refusal">>, sink2)
                       ELSE st1
            IN  /\ rawAnswer' = raw
                /\ log' = st2.lines
                /\ events' = st2.events
                /\ res' = AnswerResponse(safeAnswer, p.prompt.shouldRefuse)
                /\ pc' = "done"

\* chat_handler lines 118-146: the refusal records, the safety filter and
\* the 200 response, for the raw answer of whichever path
Answer(raw, st, p, r) ==
    LET safeAnswer == safeAnswerOf(raw, p)
        modelRefusal  == normalize(raw) = normalize(p.refusalText)
        safetyRefusal == normalize(safeAnswer) = normalize(p.refusalText)
    IN  \E sink1 \in (IF modelRefusal THEN SinkOutcomes ELSE {"unused"}),
           sink2 \in (IF safetyRefusal THEN SinkOutcomes ELSE {"unused"}) :
            LET st1 == IF modelRefusal
                       THEN LogStatement(st, r, <<"model_refusal">>, sink1)
                       ELSE st
                st2 == IF safetyRefusal
                       THEN LogStatement(st1, r, <<"safety_refusal">>, sink2)
                       ELSE st1
            IN  /\ rawAnswer' = raw
                /\ SendStatement(st2, AnswerResponse(safeAnswer,
                                                     p.prompt.shouldRefuse))

\* chat_handler: reason: `gemini_error:${fallbackMessage}`
geminiErrorReason(openAiMessage, fallbackMessage) ==
    <<"gemini_error:">> \o fallbackMessage

\* a fatal Primary failure answered with a success status
openAiFailedResponseOk(openAiMessage) ==
    [status |-> 200, answer |-> <<>>, shouldRefuse |-> FALSE,
     error |-> <<"OpenAI failed: ">> \o openAiMessage]

\* chat_handler: sendJson(res, 500, { error: `OpenAI failed: ${openAiMessage}` })
openAiFailedResponse(openAiMessage) ==
    ErrorResponse(500, <<"OpenAI failed: ">> \o openAiMessage)

\* a reason that names the provider without its failure message
openaiErrorReasonBare(openAiMessage) == <<"openai_error:">>

\* chat_handler: reason: `openai_error:${openAiMessage}`
openaiErrorReason(openAiMessage) == <<"openai_error:">> \o openAiMessage

\* a handler whose catch block of callGemini lacks its return: after the 500
\* it goes on to lines 118-146
GeminiFailedFallingThrough(error, openAiMessage) ==
    LET fallbackMessage == messageOf(error, "Gemini failed")
    IN  \E sink \in SinkOutcomes :
            LET st1 == LogStatement(Progress(log, events), req,
                                    geminiErrorReason(openAiMessage, fallbackMessage),
                                    sink)
                st2 == [st1 EXCEPT !.events = Append(st1.events, SendEvent(500))]
            IN  Answer(rawAnswer, st2, pipeline, req)

\* chat_handler lines 100-113: callGemini threw
GeminiFailed(error, openAiMessage) ==
    LET fallbackMessage == messageOf(error, "Gemini failed")
    IN  \E sink \in SinkOutcomes :
            /\ SendStatement(
                    LogStatement(Progress(log, events), req,
                                 geminiErrorReason(openAiMessage, fallbackMessage), sink),
                    ErrorResponse(500, bothFailedErrorBody(openAiMessage,
                                                           fallbackMessage)))
            /\ UNCHANGED rawAnswer

\* chat_handler: if (pipeline.prompt.shouldRefuse)
takesRefusalShortcut(p) == p.prompt.shouldRefuse

Methods == {"OPTIONS", "POST", "GET"}

Urls == {"/api/chat", "/api/other"}

\* request bodies: not JSON, the JSON value null, or a JSON object with
\* message and character
Bodies ==
    {[kind |-> "invalid", message |-> <<>>, character |-> <<>>],
     [kind |-> "null", message |-> <<>>, character |-> <<>>]}
    \cup {[kind |-> "json", message |-> m, character |-> c] :
            m \in {<<>>, <<" ">>, <<"hello", " ">>},
            c \in {<<>>, <<" ", "Leo">>}}

\* what the prompt, knowledge and safety directories hold when they are read
FileSystems ==
    [identity : IdentityFiles, style : StyleFiles, guardrails : GuardrailsFiles,
     forbidden : ForbiddenFiles, refusal : RefusalSources, prompts : {PromptFiles}]

\* lines 23-34: CORS, the preflight answer, the route check
Route ==
    /\ pc = "idle"
    /\ \E method \in Methods, url \in Urls :
        /\ req' = [req EXCEPT !.method = method, !.url = url]
        /\ IF method = "OPTIONS"
           THEN SendStatement(Progress(log, events), [NoResponse EXCEPT !.status = 204])
           ELSE IF method # "POST" \/ url # "/api/chat"
           THEN SendStatement(Progress(log, events), ErrorResponse(404, <<"Not found">>))
           ELSE /\ pc' = "reading"
                /\ UNCHANGED <<res, log, events>>
    /\ UNCHANGED <<pipeline, rawAnswer, openAi, gemini, calls, filter, builder, server>>

\* lines 36-79: the body arrives; parse, validate, load the pipeline inputs,
\* then either the refusal shortcut through to the response, or callOpenAI
ParseWith(bodies, fileSystems) ==
    /\ pc = "reading"
    /\ \E body \in bodies :
        LET message       == trim(body.message)
            characterSlug == toLowerCase(trim(body.character))
            bad(error)    == /\ SendStatement(Progress(log, events),
                                              ErrorResponse(400, error))
                             /\ req' = [req EXCEPT !.body = body]
                             /\ UNCHANGED <<pipeline, rawAnswer, openAi, calls>>
        IN  IF body.kind = "invalid" THEN bad(<<"Invalid JSON">>)
            ELSE IF body.kind = "null"
            THEN \* payload.message on null: a TypeError leaves the handler
                 /\ pc' = "crashed"
                 /\ req' = [req EXCEPT !.body = body]
                 /\ UNCHANGED <<pipeline, rawAnswer, openAi, calls, log, res, events>>
            ELSE IF message = <<>> THEN bad(<<"Missing message">>)
            ELSE IF characterSlug = <<>> THEN bad(<<"Missing character">>)
            ELSE \E files \in fileSystems, keyed \in BOOLEAN :
                 \E index \in randomIndexes(files.refusal) :
                    LET p == loadPipelineInputs(characterSlug, message, files, index)
                        r == [req EXCEPT !.body = body,
                                         !.message = message,
                                         !.characterSlug = characterSlug,
                                         !.files = [identity |-> files.identity.state,
                                                    style |-> files.style.state,
                                                    guardrails |-> files.guardrails.state,
                                                    refusal |-> files.refusal]]
                    IN  /\ req' = r
                        /\ pipeline' = IF p.primary.threw THEN pipeline ELSE p
                        /\ IF p.primary.threw
                           THEN \* line 60: the TypeError of loadPrimaryRag
                                \* leaves loadPipelineInputs and the handler
                                /\ pc' = "crashed"
                                /\ UNCHANGED <<rawAnswer, openAi, calls, log,
                                               res, events>>
                           ELSE IF takesRefusalShortcut(p)
                           THEN /\ \E sink \in SinkOutcomes :
                                     Answer(p.refusalText,
                                            LogStatement(Progress(log, events), r,
                                                         <<"empty_context">>, sink),
                                            p, r)
                                /\ UNCHANGED <<openAi, calls>>
                           ELSE /\ openAi' = [NoOpenAi EXCEPT !.state = "pending",
                                                              !.keyed = keyed]
                                /\ calls' = IF keyed
                                            THEN Append(calls, Call("openai", "generate",
                                                                    <<"gpt-4o-mini">>, "primary"))
                                            ELSE calls
                                /\ pc' = "openai"
                                /\ UNCHANGED <<rawAnswer, log, res, events>>
    /\ UNCHANGED <<gemini, filter, builder, server>>

Parse == ParseWith(Bodies, FileSystems)

\* lines 79-99: callOpenAI settles; on a quota-class failure callGemini
\* starts (lines 111-154 of gemini_client) and sends its first request
OpenAISettles ==
    /\ pc = "openai"
    /\ \E r \in (IF openAi.keyed
                 THEN {callOpenAI(o, Len(calls)) : o \in OpenAIOutcomes}
                 ELSE {MissingOpenAIKey}) :
        LET cs == IF openAi.keyed THEN Settled(calls, r) ELSE calls
            openAiMessage == messageOf(r.error, "OpenAI failed")
        IN  IF r.ok
            THEN /\ openAi' = [openAi EXCEPT !.state = "resolved", !.text = r.text]
                 /\ calls' = cs
                 /\ Answer(r.text, Progress(log, events), pipeline, req)
                 /\ UNCHANGED gemini
            ELSE /\ openAi' = [openAi EXCEPT !.state = "rejected", !.error = r.error,
                                             !.message = openAiMessage]
                 /\ IF ~isQuotaError(openAiMessage)
                    THEN /\ \E sink \in SinkOutcomes :
                                SendStatement(
                                    LogStatement(Progress(log, events), req,
                                                 openaiErrorReason(openAiMessage), sink),
                                    openAiFailedResponse(openAiMessage))
                         /\ calls' = cs
                         /\ UNCHANGED <<rawAnswer, gemini>>
                    ELSE \E apiKey \in BOOLEAN, env \in GeminiModelEnv :
                         IF ~apiKey
                         THEN LET error == Error(<<"Missing GEMINI_API_KEY">>, 0, 0)
                              IN  /\ gemini' = [NoGemini EXCEPT !.state = "thrown",
                                                                !.thrown = error]
                                  /\ calls' = cs
                                  /\ GeminiFailed(error, openAiMessage)
                         ELSE LET models == candidateModels(configuredModel(env))
                              IN  /\ gemini' = [NoGemini EXCEPT !.state = "loop",
                                                                !.env = env,
                                                                !.models = models,
                                                                !.i = 1]
                                  /\ calls' = Append(cs, Call("gemini", "generate",
                                                              models[1], "loop"))
                                  /\ pc' = "gemini_loop"
                                  /\ UNCHANGED <<rawAnswer, log, res, events>>
    /\ UNCHANGED <<req, pipeline, filter, builder, server>>

\* gemini_client lines 151-165: one request of the candidate loop settles;
\* success returns, a 404 moves to the next candidate, any other failure
\* breaks; after the loop the list-models query is sent
GeminiLoopSettles ==
    /\ pc = "gemini_loop"
    /\ \E outcome \in GeminiOutcomes :
        LET r  == requestGemini(outcome, Len(calls))
            cs == Settled(calls, r)
        IN  IF r.ok
            THEN /\ gemini' = [gemini EXCEPT !.state = "returned", !.text = r.text]
                 /\ calls' = cs
                 /\ Answer(r.text, Progress(log, events), pipeline, req)
            ELSE IF r.error.statusCode = 404 /\ gemini.i < Len(gemini.models)
            THEN /\ gemini' = [gemini EXCEPT !.lastError = <<r.error>>,
                                             !.i = gemini.i + 1]
                 /\ calls' = Append(cs, Call("gemini", "generate",
                                             gemini.models[gemini.i + 1], "loop"))
                 /\ UNCHANGED <<pc, rawAnswer, log, res, events>>
            ELSE /\ gemini' = [gemini EXCEPT !.lastError = <<r.error>>,
                                             !.state = "recovery"]
                 /\ calls' = Append(cs, Call("gemini", "list", <<>>, "recovery"))
                 /\ pc' = "gemini_list"
                 /\ UNCHANGED <<rawAnswer, log, res, events>>
    /\ UNCHANGED <<req, pipeline, openAi, filter, builder, server>>

\* gemini_client lines 165-175: the list-models query settles; the retry
\* request is sent when a model is available, else callGemini throws
GeminiListSettles ==
    /\ pc = "gemini_list"
    /\ \E outcome \in ListOutcomes :
        LET r  == listGeminiModels(outcome, Len(calls))
            cs == Settled(calls, r)
        IN  IF ~r.ok
            THEN LET last == recoveryCatch(gemini.lastError, r.error)
                 IN  /\ gemini' = [gemini EXCEPT !.lastError = last,
                                                 !.state = "thrown",
                                                 !.thrown = thrownError(last)]
                     /\ calls' = cs
                     /\ GeminiFailed(thrownError(last), openAi.message)
            ELSE IF recoveryModel(r.models) # <<>>
            THEN /\ gemini' = [gemini EXCEPT !.state = "retry"]
                 /\ calls' = Append(cs, Call("gemini", "generate",
                                             recoveryModel(r.models), "recovery"))
                 /\ pc' = "gemini_retry"
                 /\ UNCHANGED <<rawAnswer, log, res, events>>
            ELSE /\ gemini' = [gemini EXCEPT !.state = "thrown",
                                             !.thrown = thrownError(gemini.lastError)]
                 /\ calls' = cs
                 /\ GeminiFailed(thrownError(gemini.lastError), openAi.message)
    /\ UNCHANGED <<req, pipeline, openAi, filter, builder, server>>

\* gemini_client lines 169-175: the retry request settles
GeminiRetrySettles ==
    /\ pc = "gemini_retry"
    /\ \E outcome \in GeminiOutcomes :
        LET r  == requestGemini(outcome, Len(calls))
            cs == Settled(calls, r)
        IN  IF r.ok
            THEN /\ gemini' = [gemini EXCEPT !.state = "returned", !.text = r.text]
                 /\ calls' = cs
                 /\ Answer(r.text, Progress(log, events), pipeline, req)
            ELSE LET last == recoveryCatch(gemini.lastError, r.error)
                 IN  /\ gemini' = [gemini EXCEPT !.lastError = last,
                                                 !.state = "thrown",
                                                 !.thrown = thrownError(last)]
                     /\ calls' = cs
                     /\ GeminiFailed(thrownError(last), openAi.message)
    /\ UNCHANGED <<req, pipeline, openAi, filter, builder, server>>

(***************************************************************************)
(* The conversation history on its way to the providers. A turn is what    *)
(* the caller put in the array: null, or an object whose role is a string  *)
(* ("" when absent) and whose content is a text ("" when absent).          *)
(***************************************************************************)
Turn(json, role, content) == [json |-> json, role |-> role, content |-> content]

\* chat_handler line 48: the payload's conversationHistory, [] unless an array
conversationHistoryOf(payload) ==
    IF payload.isArray THEN payload.items ELSE <<>>

\* callOpenAI lines 205-216: system prompt, the history spread in, user prompt
openAiMessages(systemPrompt, userPrompt, conversationHistory) ==
    << Turn("object", "system", systemPrompt) >>
    \o conversationHistory
    \o << Turn("object", "user", userPrompt) >>

\* one entry of Gemini's contents
Content(role, text) == [role |-> role, parts |-> << [text |-> text] >>]

\* callGemini lines 134-141: a turn is pushed if msg && msg.role && msg.content
RECURSIVE convertHistory(_)
convertHistory(conversationHistory) ==
    IF conversationHistory = <<>> THEN <<>>
    ELSE LET msg == Head(conversationHistory)
         IN  (IF msg.json # "null" /\ msg.role # "" /\ msg.content # <<>>
              THEN << Content(IF msg.role = "assistant" THEN "model" ELSE "user",
                              msg.content) >>
              ELSE <<>>)
             \o convertHistory(Tail(conversationHistory))

\* callGemini lines 122-148: system prompt as a user entry, the converted
\* history, the user prompt
geminiContents(systemPrompt, userPrompt, conversationHistory) ==
    << Content("user", systemPrompt) >>
    \o convertHistory(conversationHistory)
    \o << Content("user", userPrompt) >>

(***************************************************************************)
(* renderTemplate and buildRagOnlyPrompt on their own: inputs are drawn in *)
(* the initial state; Render applies renderTemplate to a template made of  *)
(* a text, one token and a text; Build applies buildRagOnlyPrompt, and     *)
(* Dispatch takes the handler's branch on the prompt it built.             *)
(***************************************************************************)
NoBuilder ==
    [stage |-> "off", prefix |-> <<>>, path |-> <<>>, suffix |-> <<>>,
     template |-> <<>>, templateVars |-> <<>>, rendered |-> <<>>,
     input |-> <<>>, prompts |-> NoPromptFiles,
     prompt |-> [system |-> <<>>, user |-> <<>>, shouldRefuse |-> FALSE],
     branch |-> "",
     payload |-> [isArray |-> FALSE, items |-> <<>>],
     conversationHistory |-> <<>>, messages |-> <<>>, contents |-> <<>>,
     slug |-> <<>>,
     files |-> [identity |-> [state |-> "missing", value |-> EmptyIdentity],
                style |-> [state |-> "missing", value |-> EmptyStyle],
                guardrails |-> [state |-> "missing", value |-> EmptyGuardrails]],
     primary |-> [threw |-> FALSE, context |-> <<>>, guardrails |-> EmptyGuardrails,
                  characterId |-> <<>>, characterName |-> <<>>]]

\* the keys of the tokens drawn, as the template spells them between dots
TokenPaths ==
    { <<"character">>,
      <<"nickname">>,
      <<"toString">>,
      <<"guardrails">>,
      <<"nickname", "character">>,
      <<"character", "length">>,
      <<"guardrails", "nickname", "constraints">>,
      <<"guardrails", "constraints", "constructor">>,
      <<"guardrails", "constraints", "redirection_style">>,
      <<"guardrails", "constraints", "virtue_alignment">>,
      <<"guardrails", "constraints", "virtue_alignment", "0">>,
      <<"guardrails", "constraints", "virtue_alignment", "nickname">> }

\* {{a.b.c}} with or without blanks inside the braces
token(path, spaced) ==
    LET dotted == join([k \in 1..Len(path) |-> <<path[k]>>], <<".">>)
    IN  IF spaced THEN <<"{{", " ">> \o dotted \o <<" ", "}}">>
        ELSE <<"{{">> \o dotted \o <<"}}">>

\* the variables handed to renderTemplate
TemplateVarSets ==
    { <<>>,
      [k \in {"character"} |-> Str(<<"Leo">>)],
      [k \in {"character", "guardrails"} |->
          IF k = "character" THEN Str(<<"Leo">>) ELSE Obj(<<>>)],
      [k \in {"character", "guardrails"} |->
          IF k = "character" THEN Undefined ELSE Str(<<"none">>)],
      [k \in {"character", "guardrails"} |->
          IF k = "character" THEN Str(<<>>)
          ELSE Obj([j \in {"constraints"} |->
                      Obj([i \in {"virtue_alignment", "redirection_style"} |->
                              IF i = "virtue_alignment"
                              THEN Arr(<< <<"be", " ", "kind">>, <<"be", " ", "brave">> >>)
                              ELSE Null])])] }

Render ==
    /\ builder.stage = "template"
    /\ builder' = [builder EXCEPT
            !.stage = "rendered",
            !.rendered = renderTemplate(builder.template, builder.templateVars)]
    /\ UNCHANGED <<handlerVars, filter, server>>

\* what buildRagOnlyPrompt is called with
PromptInputs ==
    [question : { <<"hello">>, <<"{{", "context", "}}">> },
     context : { <<>>, <<" ", "\n">>, <<" ", "facts">>,
                 <<"## ", "Identity", "\n", "{}", "\n">> },
     character : { <<>>, <<"Leo">> },
     refusalText : { <<>>, <<"Sorry">> },
     guardrails : { EmptyGuardrails, GuardrailsKind },
     conversationHistory : { <<>>, << [role |-> "user", content |-> <<"hi">>] >> }]

PromptFileSets ==
    { PromptFiles, NoPromptFiles, [PromptFiles EXCEPT !.system = <<>>] }

Build ==
    /\ builder.stage = "input"
    /\ builder' = [builder EXCEPT
            !.stage = "built",
            !.prompt = buildRagOnlyPrompt(builder.input, builder.prompts)]
    /\ UNCHANGED <<handlerVars, filter, server>>

\* chat_handler lines 69-79: the refusal shortcut, or the call of a provider
Dispatch ==
    /\ builder.stage = "built"
    /\ builder' = [builder EXCEPT
            !.stage = "dispatched",
            !.branch = IF takesRefusalShortcut([prompt |-> builder.prompt])
                       THEN "refusal" ELSE "provider"]
    /\ UNCHANGED <<handlerVars, filter, server>>

(***************************************************************************)
(* The server process (backend/server): every request is one invocation of *)
(* handleChatRequest, which runs until its next await; the event loop then *)
(* runs the continuation of any invocation whose await has settled. pc,    *)
(* req, ..., events hold the locals of the invocation that runs; the       *)
(* locals of the others are kept in server.suspended. The log file is the  *)
(* one thing the invocations share.                                        *)
(***************************************************************************)
Requests == {"a", "b"}

\* the locals of an invocation that has not started
NotStarted ==
    [pc |-> "idle", req |-> NoRequest, pipeline |-> NoPipeline, rawAnswer |-> <<>>,
     openAi |-> NoOpenAi, gemini |-> NoGemini, calls |-> <<>>, res |-> NoResponse,
     events |-> <<>>]

\* the locals of the invocation that runs
Running ==
    [pc |-> pc, req |-> req, pipeline |-> pipeline, rawAnswer |-> rawAnswer,
     openAi |-> openAi, gemini |-> gemini, calls |-> calls, res |-> res,
     events |-> events]

NoServer ==
    [alive |-> TRUE, current |-> "a", suspended |-> [i \in Requests |-> NotStarted]]

\* the locals of invocation i
LocalsOf(i) == IF i = server.current THEN Running ELSE server.suspended[i]

\* the turns a caller may put in the history
Turns ==
    { Turn("object", "user", <<"hi">>),
      Turn("object", "assistant", <<"hello", " ", "there">>),
      Turn("object", "system", <<"be", " ", "brief">>),
      Turn("object", "assistant", <<>>),
      Turn("object", "", <<"hi">>),
      Turn("null", "", <<>>) }

\* payload.conversationHistory: absent or not an array, or an array of turns
HistoryPayloads ==
    { [isArray |-> FALSE, items |-> <<>>] }
    \cup { [isArray |-> TRUE, items |-> h] : h \in TextsUpTo(Turns, MaxTurns) }

\* chat_handler line 48
ReadHistory ==
    /\ builder.stage = "payload"
    /\ builder' = [builder EXCEPT
            !.stage = "history",
            !.conversationHistory = conversationHistoryOf(builder.payload)]
    /\ UNCHANGED <<handlerVars, filter, server>>

\* chat_handler line 79: callOpenAI builds its messages
BuildMessages ==
    /\ builder.stage = "history"
    /\ builder' = [builder EXCEPT
            !.stage = "primary",
            !.messages = openAiMessages(builder.prompt.system, builder.prompt.user,
                                        builder.conversationHistory)]
    /\ UNCHANGED <<handlerVars, filter, server>>

\* chat_handler line 99: callGemini builds its contents
BuildContents ==
    /\ builder.stage = "primary"
    /\ builder' = [builder EXCEPT
            !.stage = "secondary",
            !.contents = geminiContents(builder.prompt.system, builder.prompt.user,
                                        builder.conversationHistory)]
    /\ UNCHANGED <<handlerVars, filter, server>>

\* the knowledge directories loadPrimaryRag is applied to
LoaderFileSets ==
    [identity : IdentityFiles \cup {[state |-> "json", value |-> IdentityNumber]},
     style : StyleFiles \cup {[state |-> "malformed", value |-> EmptyStyle],
                              [state |-> "json", value |-> StyleNull],
                              [state |-> "json", value |-> StyleNumber]},
     guardrails : GuardrailsFiles
                  \cup {[state |-> "malformed", value |-> EmptyGuardrails],
                        [state |-> "json", value |-> GuardrailsNull],
                        [state |-> "json", value |-> GuardrailsNumber]}]

Load ==
    /\ builder.stage = "files"
    /\ builder' = [builder EXCEPT
            !.stage = "loaded",
            !.primary = loadPrimaryRag(builder.slug, builder.files.identity,
                                       builder.files.style,
                                       builder.files.guardrails)]
    /\ UNCHANGED <<handlerVars, filter, server>>

Init ==
    /\ pc = "idle"
    /\ req = NoRequest
    /\ pipeline = NoPipeline
    /\ rawAnswer = <<>>
    /\ openAi = NoOpenAi
    /\ gemini = NoGemini
    /\ calls = <<>>
    /\ log = <<>>
    /\ res = NoResponse
    /\ events = <<>>
    /\ filter = NoFilter
    /\ builder = NoBuilder
    /\ server = NoServer

Next ==
    \/ Route
    \/ Parse
    \/ OpenAISettles
    \/ GeminiLoopSettles
    \/ GeminiListSettles
    \/ GeminiRetrySettles

Spec == Init /\ [][Next]_vars

\* the same with every await completing: the body arrives and every provider
\* call settles, after which the event loop runs the handler's continuation
LiveSpec == Spec /\ WF_vars(Next)

(***************************************************************************)
(* The specification of the safety filter on its own.                      *)
(***************************************************************************)
SafetyInit ==
    /\ pc = "idle"
    /\ req = NoRequest
    /\ pipeline = NoPipeline
    /\ rawAnswer = <<>>
    /\ openAi = NoOpenAi
    /\ gemini = NoGemini
    /\ calls = <<>>
    /\ log = <<>>
    /\ res = NoResponse
    /\ events = <<>>
    /\ builder = NoBuilder
    /\ server = NoServer
    /\ \E answer \in SafetyAnswers, topics \in SafetyTopicLists,
          guardrails \in SafetyGuardrails, refusalText \in SafetyRefusalTexts :
        filter = [NoFilter EXCEPT !.stage = "input", !.answer = answer,
                                  !.safety = [forbiddenTopics |-> topics],
                                  !.guardrails = guardrails,
                                  !.refusalText = refusalText]

SafetyNext == Enforce \/ EnforceAgain

SafetySpec == SafetyInit /\ [][SafetyNext]_vars

(***************************************************************************)
(* The specifications of renderTemplate and of buildRagOnlyPrompt on their *)
(* own.                                                                    *)
(***************************************************************************)
HandlerIdle ==
    /\ pc = "idle"
    /\ req = NoRequest
    /\ pipeline = NoPipeline
    /\ rawAnswer = <<>>
    /\ openAi = NoOpenAi
    /\ gemini = NoGemini
    /\ calls = <<>>
    /\ log = <<>>
    /\ res = NoResponse
    /\ events = <<>>
    /\ filter = NoFilter
    /\ server = NoServer

TemplateInit ==
    /\ HandlerIdle
    /\ \E prefix \in { <<>>, <<"Hello", " ">> }, path \in TokenPaths,
          spaced \in BOOLEAN, suffix \in { <<>>, <<"!">> },
          templateVars \in TemplateVarSets :
        builder = [NoBuilder EXCEPT
                        !.stage = "template", !.prefix = prefix, !.path = path,
                        !.suffix = suffix,
                        !.template = prefix \o token(path, spaced) \o suffix,
                        !.templateVars = templateVars]

TemplateNext == Render

TemplateSpec == TemplateInit /\ [][TemplateNext]_vars

PromptInit ==
    /\ HandlerIdle
    /\ \E input \in PromptInputs, prompts \in PromptFileSets :
        builder = [NoBuilder EXCEPT !.stage = "input", !.input = input,
                                    !.prompts = prompts]

PromptNext == Build \/ Dispatch

PromptSpec == PromptInit /\ [][PromptNext]_vars

(***************************************************************************)
(* The specification of loadPrimaryRag on its own.                         *)
(***************************************************************************)
LoaderInit ==
    /\ HandlerIdle
    /\ \E files \in LoaderFileSets, slug \in { <<"leo">>, <<"mia">> } :
        builder = [NoBuilder EXCEPT !.stage = "files", !.slug = slug,
                                    !.files = files]

LoaderNext == Load

LoaderSpec == LoaderInit /\ [][LoaderNext]_vars

(***************************************************************************)
(* The specification of the conversation history's way from the payload    *)
(* to the two providers' requests.                                         *)
(***************************************************************************)
HistoryInit ==
    /\ HandlerIdle
    /\ \E payload \in HistoryPayloads :
        builder = [NoBuilder EXCEPT
                        !.stage = "payload", !.payload = payload,
                        !.prompt = [system |-> <<"Answer", " ", "as", " ", "Leo">>,
                                    user |-> <<"Q: ", "hello">>,
                                    shouldRefuse |-> FALSE]]

HistoryNext == ReadHistory \/ BuildMessages \/ BuildContents

HistorySpec == HistoryInit /\ [][HistoryNext]_vars

(***************************************************************************)
(* The specification of several requests in flight.                        *)
(***************************************************************************)
\* the requests drawn when several are in flight: the body null, or a valid
\* body with one of two messages
ConcurrentBodies ==
    {[kind |-> "null", message |-> <<>>, character |-> <<>>],
     [kind |-> "json", message |-> <<"hello", " ">>, character |-> <<" ", "Leo">>],
     [kind |-> "json", message |-> <<"why">>, character |-> <<" ", "Leo">>]}

\* and the one file system they are served from
ConcurrentFileSystems ==
    {[identity |-> [state |-> "json", value |-> IdentityLeo],
      style |-> [state |-> "missing", value |-> EmptyStyle],
      guardrails |-> [state |-> "missing", value |-> EmptyGuardrails],
      forbidden |-> [state |-> "missing", value |-> <<>>],
      refusal |-> <<"Sorry", "\n">>,
      prompts |-> PromptFiles]}

\* the provider and sink outcomes drawn when several requests are in
\* flight: POST /api/chat, OPENAI_API_KEY set, GEMINI_MODEL unset, the
\* Primary answering with a text, with the refusal text, with 429 or with a
\* network error, the Secondary with a text, the refusal text or a failure
\* other than 404, the sink appending or failing to append
ConcurrentInputs ==
    /\ req.method \in {"", "POST"}
    /\ req.url \in {"", "/api/chat"}
    /\ openAi.state # "idle" => openAi.keyed
    /\ openAi.text \in {<<>>, <<"Sorry">>, <<"I", " ", "am", " ", "Leo">>}
    /\ openAi.message \in {<<>>, <<"ECONNRESET">>,
                            <<"OpenAI error ", "429", ": ", "rate", " ", "limit">>}
    /\ gemini.env = <<>>
    /\ \A k \in 1..Len(calls) :
            /\ calls[k].text \in {<<>>, <<"Sorry">>, <<"I", " ", "am", " ", "Leo">>}
            /\ calls[k].outcome # "404"
    /\ \A k \in 1..Len(events) : events[k].sink \in {"", "appended", "append_failed"}

\* the invocation that runs takes its next step, up to its next await
Serve ==
    /\ server.alive
    /\ \/ Route
       \/ ParseWith(ConcurrentBodies, ConcurrentFileSystems)
       \/ OpenAISettles
       \/ GeminiLoopSettles
       \/ GeminiListSettles
       \/ GeminiRetrySettles
    /\ ConcurrentInputs'

\* the await of invocation i has settled, or request i has arrived: the
\* event loop runs i, and the invocation that ran stays suspended
Resume(i) ==
    /\ server.alive
    /\ i # server.current
    /\ server.suspended[i].pc \notin {"done", "crashed"}
    /\ pc' = server.suspended[i].pc
    /\ req' = server.suspended[i].req
    /\ pipeline' = server.suspended[i].pipeline
    /\ rawAnswer' = server.suspended[i].rawAnswer
    /\ openAi' = server.suspended[i].openAi
    /\ gemini' = server.suspended[i].gemini
    /\ calls' = server.suspended[i].calls
    /\ res' = server.suspended[i].res
    /\ events' = server.suspended[i].events
    /\ server' = [server EXCEPT
                    !.current = i,
                    !.suspended = [@ EXCEPT ![server.current] = Running,
                                            ![i] = NotStarted]]
    /\ UNCHANGED <<log, filter, builder>>

\* server.ts lines 88-97: the callback awaits handleChatRequest without a
\* catch, so an exception that leaves the handler is an unhandled promise
\* rejection; depending on the Node version and its flags the process only
\* warns (this step is never taken) or terminates
UnhandledRejection ==
    /\ server.alive
    /\ \E i \in Requests : LocalsOf(i).pc = "crashed"
    /\ server' = [server EXCEPT !.alive = FALSE]
    /\ UNCHANGED <<handlerVars, filter, builder>>

ConcurrentNext ==
    \/ Serve
    \/ \E i \in Requests : Resume(i)
    \/ UnhandledRejection

ConcurrentSpec == Init /\ [][ConcurrentNext]_vars

\* the same with every await of request "b" completing and its continuation
\* run, while request "a" may stay at any of its awaits for ever
StallSpec ==
    /\ ConcurrentSpec
    /\ WF_vars(Resume("b"))
    /\ SF_vars(server.current = "b" /\ Serve)

(***************************************************************************)
(* Properties.                                                             *)
(***************************************************************************)
\* the network requests sent to a provider
CallsTo(to) == SelectSeq(calls, LAMBDA c : c.to = to)

\* callOpenAI or callGemini has been invoked
ProviderInvoked == openAi.state # "idle" \/ gemini.state # "idle"

\* the request passed validation and its knowledge directory held no document
NoKnowledgeFiles ==
    /\ req.message # <<>>
    /\ req.files.identity = "missing"
    /\ req.files.style = "missing"
    /\ req.files.guardrails = "missing"

\* C1: a valid request for a character whose knowledge directory holds none
\* of identity, style and guardrails never invokes callOpenAI or callGemini,
\* and its response is 200 with the refusal text and shouldRefuse = true.
C1_EmptyKnowledgeRefuses ==
    NoKnowledgeFiles =>
        /\ ~ProviderInvoked
        /\ calls = <<>>
        /\ pc = "done" => /\ res.status = 200
                          /\ res.shouldRefuse
                          /\ res.answer = pipeline.refusalText

\* the quota-class markers of a Primary failure message
C2_QuotaMarkers ==
    { <<"insufficient_quota">>, <<"OpenAI error ", "429">>, <<"Missing OPENAI_API_KEY">> }

C2_QuotaClass(message) == \E marker \in C2_QuotaMarkers : includes(message, marker)

\* C2: callGemini is invoked, and a request goes to the Secondary, only
\* after callOpenAI failed with a message holding a quota-class marker; after
\* any other failure of callOpenAI the request has ended with a 500 response
\* and nothing of the Secondary has run.
C2_SecondaryOnlyAfterQuotaFailure ==
    /\ (gemini.state # "idle" \/ CallsTo("gemini") # <<>>) =>
            /\ openAi.state = "rejected"
            /\ C2_QuotaClass(openAi.error.message)
    /\ (openAi.state = "rejected" /\ ~C2_QuotaClass(openAi.error.message)) =>
            /\ pc = "done"
            /\ res.status = 500
            /\ gemini.state = "idle"
            /\ CallsTo("gemini") = <<>>

\* the Secondary answered after an HTTP 429 of the Primary
C2_Witness ==
    /\ gemini.state = "returned"
    /\ includes(openAi.error.message, <<"OpenAI error ", "429">>)
    /\ res.status = 200

\* the raw answer of the path the request took
C3_RawOfPath ==
    IF ~ProviderInvoked THEN pipeline.refusalText
    ELSE IF gemini.state = "returned" THEN gemini.text
    ELSE openAi.text

\* C3: the answer of every 200 response is the safety filter applied to the
\* raw answer of the path taken: the refusal text of the shortcut, the text
\* callOpenAI resolved with, or the text callGemini returned.
C3_SafetyAppliedToEvery200 ==
    res.status = 200 =>
        res.answer = applySafety(C3_RawOfPath, pipeline.safety,
                                 pipeline.primary.guardrails, pipeline.refusalText)

\* the Secondary returned a text the filter replaced
C3_Witness ==
    /\ res.status = 200
    /\ gemini.state = "returned"
    /\ gemini.text # <<>>
    /\ res.answer # gemini.text
    /\ res.answer = pipeline.refusalText

\* text holds one of the topics, both lower-cased
MentionsTopic(text, topics) ==
    \E k \in DOMAIN topics : includes(toLowerCase(text), toLowerCase(topics[k]))

\* the filter has produced its first output
Filtered == filter.stage \in {"once", "twice"}

\* the topics that are not the empty string, which every string includes
C4_NonEmptyTopics(topics) == SelectSeq(topics, LAMBDA t : t # <<>>)

\* C4 as stated: the string enforceSafety returns holds no forbidden topic,
\* for every answer, safety config and refusal text (read in the claim's
\* favour: an empty topic string is not counted).
C4_NeverForbiddenTopic ==
    Filtered =>
        ~MentionsTopic(filter.once, C4_NonEmptyTopics(filter.safety.forbiddenTopics))

\* C4 as amended: the string enforceSafety returns is the refusal text
\* itself, or it holds no forbidden topic.
C4_RefusalTextOrNoForbiddenTopic ==
    Filtered =>
        \/ filter.once = filter.refusalText
        \/ ~MentionsTopic(filter.once, filter.safety.forbiddenTopics)

\* an answer with a forbidden topic was replaced by a clean refusal text
C4_Witness ==
    /\ Filtered
    /\ MentionsTopic(filter.answer, filter.safety.forbiddenTopics)
    /\ filter.once = filter.refusalText
    /\ filter.once # filter.answer
    /\ ~MentionsTopic(filter.once, filter.safety.forbiddenTopics)

\* the personal-information keywords
C5_Keywords ==
    { <<"address">>, <<"phone">>, <<"email">>,
      <<"last", " ", "name">>, <<"full", " ", "name">> }

C5_MentionsKeyword(text) == \E k \in C5_Keywords : includes(toLowerCase(text), k)

\* C5: enforceSafety returns the refusal text when the lower-cased answer
\* holds a lower-cased forbidden topic or a personal-information keyword,
\* and the answer unchanged otherwise, whatever the guardrails are.
C5_FilterResult ==
    Filtered =>
        filter.once = IF \/ MentionsTopic(filter.answer, filter.safety.forbiddenTopics)
                         \/ C5_MentionsKeyword(filter.answer)
                      THEN filter.refusalText
                      ELSE filter.answer

\* an answer that mentions a guardrails keyword and nothing forbidden passed
C5_Witness ==
    /\ Filtered
    /\ filter.guardrails.virtue_alignment # <<>>
    /\ MentionsTopic(filter.answer, filter.guardrails.virtue_alignment)
    /\ filter.safety.forbiddenTopics # <<>>
    /\ filter.refusalText # filter.answer
    /\ filter.once = filter.answer

\* C6: enforceSafety applied to its own output gives that output again.
C6_Idempotent ==
    filter.stage = "twice" => filter.twice = filter.once

\* the filter ran twice on an answer it refused with a refusal text that
\* itself holds a forbidden topic
C6_Witness ==
    /\ filter.stage = "twice"
    /\ filter.once # filter.answer
    /\ filter.refusalText # <<>>
    /\ \E k \in DOMAIN filter.safety.forbiddenTopics :
          /\ filter.safety.forbiddenTopics[k] # <<>>
          /\ includes(toLowerCase(filter.refusalText),
                      toLowerCase(filter.safety.forbiddenTopics[k]))

\* positions in calls of the requests callGemini sent in its candidate loop
LoopCalls == {k \in DOMAIN calls : calls[k].phase = "loop"}

\* positions in calls of the requests of the recovery step
RecoveryCalls == {k \in DOMAIN calls : calls[k].phase = "recovery"}

\* a call that came back with a failure
Failed(k) == calls[k].outcome \in {"404", "error"}

\* C7: the list-models query and the retry are made only when every
\* candidate of the loop failed with 404; after a candidate failed with any
\* other error no list-models query and no generate request follows.
C7_RecoveryOnlyAfterAllNotFound ==
    /\ RecoveryCalls # {} =>
            /\ Cardinality(LoopCalls) = Len(gemini.models)
            /\ \A k \in LoopCalls : calls[k].outcome = "404"
    /\ \A k \in LoopCalls : calls[k].outcome = "error" => k = Len(calls)

\* s without the later occurrences of its elements
RECURSIVE C8_FirstOccurrences(_, _)
C8_FirstOccurrences(s, seen) ==
    IF s = <<>> THEN <<>>
    ELSE IF Head(s) \in seen THEN C8_FirstOccurrences(Tail(s), seen)
    ELSE <<Head(s)>> \o C8_FirstOccurrences(Tail(s), seen \cup {Head(s)})

\* configured model, default model, safe fallbacks, duplicates removed
C8_Candidates ==
    C8_FirstOccurrences(
        << IF gemini.env # <<>> THEN gemini.env ELSE <<"gemini-1.5-flash">>,
           <<"gemini-1.5-flash">>, <<"gemini-1.5-pro">>, <<"gemini-1.0-pro">> >>, {})

\* the requests of the candidate loop, in the order sent
C8_Loop == SelectSeq(calls, LAMBDA c : c.phase = "loop")

\* C8: the candidate loop requests configured model, default model and safe
\* fallbacks in this order and none twice; a request is followed by the next
\* candidate's exactly when it failed with 404; a success ends callGemini
\* with that candidate's text; a failure other than 404 ends the loop.
C8_CandidateLoop ==
    LET loop == C8_Loop
    IN  /\ Len(loop) <= Len(C8_Candidates)
        /\ \A j \in DOMAIN loop : loop[j].model = C8_Candidates[j]
        /\ \A j, k \in DOMAIN loop : j # k => loop[j].model # loop[k].model
        /\ \A j \in DOMAIN loop :
              /\ j < Len(loop) => loop[j].outcome = "404"
              /\ (loop[j].outcome = "404" /\ j < Len(C8_Candidates)) => j < Len(loop)
              /\ loop[j].outcome = "ok" =>
                    /\ gemini.state = "returned"
                    /\ gemini.text = loop[j].text
                    /\ RecoveryCalls = {}
        /\ \A k \in LoopCalls, j \in RecoveryCalls : k < j

\* with GEMINI_MODEL naming a fallback model, the configured model answered
\* 404 and the default model, second in order, succeeded
C8_Witness ==
    /\ gemini.env = <<"gemini-1.5-pro">>
    /\ Len(C8_Loop) = 2
    /\ C8_Loop[1].model = <<"gemini-1.5-pro">>
    /\ C8_Loop[1].outcome = "404"
    /\ C8_Loop[2].model = <<"gemini-1.5-flash">>
    /\ C8_Loop[2].outcome = "ok"
    /\ gemini.state = "returned"

\* callGemini threw after its recovery step failed
C9_RecoveryFailed ==
    /\ gemini.state = "thrown"
    /\ \E k \in RecoveryCalls : Failed(k)

\* the last request of the candidate loop: the one that raised the error
\* the candidate loop ended with
C9_LastLoopCall == CHOOSE k \in LoopCalls : \A j \in LoopCalls : j <= k

\* C9 as stated: when the recovery step fails too, callGemini throws the
\* error of the candidate loop, not the one raised in the recovery step.
C9_OriginalErrorSurfaced ==
    C9_RecoveryFailed => gemini.thrown.id = C9_LastLoopCall

\* C9 as amended: when the list-models query or the retry fails, callGemini
\* throws the error that failure raised; it throws the error of the
\* candidate loop only when the list-models query succeeds and offers no
\* model to retry.
C9_RecoveryErrorSurfaced ==
    (gemini.state = "thrown" /\ LoopCalls # {}) =>
        IF \E k \in RecoveryCalls : Failed(k)
        THEN /\ Failed(Len(calls))
             /\ calls[Len(calls)].phase = "recovery"
             /\ gemini.thrown.id = Len(calls)
        ELSE /\ calls[Len(calls)].op = "list"
             /\ calls[Len(calls)].outcome = "ok"
             /\ gemini.thrown.id = C9_LastLoopCall

\* every candidate answered 404, the list-models query succeeded, the retry
\* failed, and the retry's error was thrown
C9_Witness ==
    /\ C9_RecoveryFailed
    /\ \A k \in LoopCalls : calls[k].outcome = "404"
    /\ calls[Len(calls)].op = "generate"
    /\ calls[Len(calls)].phase = "recovery"
    /\ gemini.thrown.id = Len(calls)
    /\ gemini.thrown.id # C9_LastLoopCall

\* C10: when callOpenAI failed with a quota-class error and callGemini threw,
\* the response is 500 and its error text holds the message of the Primary
\* failure and the message of the Secondary failure.
C10_BothMessagesInError ==
    (openAi.state = "rejected" /\ gemini.state = "thrown") =>
        /\ res.status = 500
        /\ includes(res.error, openAi.error.message)
        /\ includes(res.error, gemini.thrown.message)

\* both providers failed with messages of their own
C10_Witness ==
    /\ openAi.state = "rejected"
    /\ includes(openAi.error.message, <<"insufficient_quota">>)
    /\ gemini.state = "thrown"
    /\ includes(gemini.thrown.message, <<"Gemini error ", "500", ": ">>)
    /\ res.status = 500

\* both providers failed: callOpenAI rejected with a quota-class error and
\* callGemini threw
BothProvidersFailed == openAi.state = "rejected" /\ gemini.state = "thrown"

\* text begins with prefix
StartsWith(text, prefix) ==
    Len(prefix) <= Len(text) /\ SubSeq(text, 1, Len(prefix)) = prefix

\* C11: when both providers fail, the record written to the log for the
\* request has a reason that starts with gemini_error: and holds the message
\* of the Primary failure and the message of the Secondary failure.
C11_LogRecordCarriesBothMessages ==
    (BothProvidersFailed /\ log # <<>>) =>
        \E k \in DOMAIN log :
            /\ StartsWith(log[k].reason, <<"gemini_error:">>)
            /\ includes(log[k].reason, openAi.message)
            /\ includes(log[k].reason, messageOf(gemini.thrown, "Gemini failed"))

\* the request is a POST to /api/chat
ChatRequest == req.method = "POST" /\ req.url = "/api/chat"

\* the handler answered 400 before it loaded anything: the body was not
\* JSON, or message or character was missing or blank
InputError == ChatRequest /\ pc = "done" /\ req.characterSlug = <<>>

\* callOpenAI rejected with a failure outside the quota class
PrimaryFatal == openAi.state = "rejected" /\ ~C2_QuotaClass(openAi.message)

LoggedReasons == {log[k].reason : k \in DOMAIN log}

\* the safety filter found a forbidden topic or a personal-information
\* keyword in the raw answer, and so put the refusal text in its place
FilterReplaced ==
    \/ MentionsTopic(rawAnswer, pipeline.safety.forbiddenTopics)
    \/ C5_MentionsKeyword(rawAnswer)

\* C13: a record with reason empty_context is logged only when the refusal
\* flag is set, one with model_refusal only when a provider was invoked and
\* its output equals the refusal text after whitespace normalisation, one
\* with safety_refusal only when the safety filter replaced the raw answer
\* by the refusal text: an answer that passes the filter unchanged leaves
\* no safety_refusal record. (Requests whose refusal text is empty, where an
\* empty answer and a refusal cannot be told apart, are left out.)
C13_ReasonOnlyForOwnCause ==
    pipeline.refusalText # <<>> =>
        /\ <<"empty_context">> \in LoggedReasons => pipeline.prompt.shouldRefuse
        /\ <<"model_refusal">> \in LoggedReasons =>
                /\ ProviderInvoked
                /\ normalize(C3_RawOfPath) = normalize(pipeline.refusalText)
        /\ <<"safety_refusal">> \in LoggedReasons =>
                /\ FilterReplaced
                /\ res.answer = pipeline.refusalText

\* position in events of the response
SendPosition == CHOOSE k \in DOMAIN events : events[k].kind = "send"

\* logUnansweredQuestion was called with the reason before the response was
\* sent, and the log file holds the record when the sink took it
RecordedBeforeResponse(reason) ==
    \E k \in DOMAIN events :
        /\ events[k].kind = "log"
        /\ events[k].reason = reason
        /\ k < SendPosition
        /\ events[k].sink = "appended" => reason \in LoggedReasons

\* C14: on the way to a 200 response every refusal cause that occurs has its
\* record written, when the sink takes it, before the response is sent:
\* empty_context when the refusal flag is set, model_refusal when the
\* provider's output equals the refusal text after normalisation,
\* safety_refusal when the filter puts the refusal text in the place of a
\* provider answer that holds a forbidden topic; the response then carries
\* the refusal text.
C14_RefusalRecordedBeforeResponse ==
    (ChatRequest /\ pc = "done" /\ res.status = 200) =>
        /\ pipeline.prompt.shouldRefuse =>
                RecordedBeforeResponse(<<"empty_context">>)
        /\ (ProviderInvoked
            /\ normalize(C3_RawOfPath) = normalize(pipeline.refusalText)) =>
                RecordedBeforeResponse(<<"model_refusal">>)
        /\ (ProviderInvoked
            /\ MentionsTopic(C3_RawOfPath, pipeline.safety.forbiddenTopics)) =>
                /\ RecordedBeforeResponse(<<"safety_refusal">>)
                /\ res.answer = pipeline.refusalText

\* a provider answer with a forbidden topic was replaced by a refusal text of
\* its own, the safety_refusal record is in the file, and no model_refusal
\* record is
C14_Witness ==
    /\ pc = "done"
    /\ res.status = 200
    /\ ProviderInvoked
    /\ MentionsTopic(C3_RawOfPath, pipeline.safety.forbiddenTopics)
    /\ pipeline.refusalText # <<>>
    /\ res.answer = pipeline.refusalText
    /\ LoggedReasons = { <<"safety_refusal">> }
    /\ events[Len(events)].kind = "send"

\* the positions in events of the logUnansweredQuestion calls
LogCalls == {k \in DOMAIN events : events[k].kind = "log"}

\* the response the request must get, read off the request, the pipeline
\* inputs and the providers' outcomes alone
C15_ResponseOfOutcome ==
    IF PrimaryFatal THEN ErrorResponse(500, <<"OpenAI failed: ">> \o openAi.message)
    ELSE IF BothProvidersFailed
    THEN ErrorResponse(500, <<"OpenAI failed: ">> \o openAi.message
                            \o <<". Gemini failed: ">>
                            \o messageOf(gemini.thrown, "Gemini failed"))
    ELSE AnswerResponse(applySafety(C3_RawOfPath, pipeline.safety,
                                    pipeline.primary.guardrails, pipeline.refusalText),
                        pipeline.prompt.shouldRefuse)

\* C15: whatever the sink does to each logUnansweredQuestion call, the
\* handler goes on to send the response the request's outcome determines,
\* and no exception of the sink ends handleChatRequest.
C15_SinkFailureNeverChangesOutcome ==
    LogCalls # {} =>
        /\ pc = "done"
        /\ res = C15_ResponseOfOutcome
        /\ events[Len(events)] = SendEvent(res.status)

\* the directory could not be created for one record and the append failed
\* for the other, and the refusal was answered all the same
C15_Witness ==
    /\ pc = "done"
    /\ res.status = 200
    /\ res.answer # <<>>
    /\ log = <<>>
    /\ \E j, k \in LogCalls : /\ events[j].sink = "ensure_failed"
                              /\ events[k].sink = "append_failed"

\* the lines of a text: the maximal runs without a line break
C16_Lines(raw) ==
    LET bounds == {p \in (1..(Len(raw) + 1)) \X (0..Len(raw)) :
                      /\ p[1] <= p[2] + 1
                      /\ \A k \in p[1]..p[2] : raw[k] # "\n"
                      /\ (p[1] = 1 \/ raw[p[1] - 1] = "\n")
                      /\ (p[2] = Len(raw) \/ raw[p[2] + 1] = "\n")}
    IN  {SubSeq(raw, p[1], p[2]) : p \in bounds}

\* the refusal candidates: the non-blank lines of the source, trimmed
C16_Candidates(raw) == {trim(line) : line \in C16_Lines(raw)} \ {<<>>}

\* the request passed validation and its pipeline inputs were loaded:
\* loadPipelineInputs returned instead of throwing
Loaded == req.characterSlug # <<>> /\ pc # "crashed"

\* the response is a refusal: the filter put the refusal text in the place
\* of the raw answer
C16_Refused == res.status = 200 /\ FilterReplaced

\* C16 as stated: the refusal text buildRefusalText returns, and so every
\* refusal answer, is one of the non-blank trimmed lines of the refusal
\* source, whatever the source holds.
C16_RefusalTextIsCandidate ==
    Loaded =>
        /\ pipeline.refusalText \in C16_Candidates(req.files.refusal)
        /\ C16_Refused => res.answer \in C16_Candidates(req.files.refusal)

\* C16 as amended: the refusal text is one of the non-blank trimmed lines of
\* the refusal source when there is one, and the empty text when the source
\* is missing, empty or blank; every refusal answer is that text.
C16_RefusalTextIsCandidateOrEmpty ==
    Loaded =>
        /\ IF C16_Candidates(req.files.refusal) # {}
           THEN pipeline.refusalText \in C16_Candidates(req.files.refusal)
           ELSE pipeline.refusalText = <<>>
        /\ C16_Refused => res.answer = pipeline.refusalText

\* the second of two candidates was drawn, trimmed of the blanks around it,
\* and answered in the place of a filtered answer
C16_Witness ==
    /\ Loaded
    /\ Cardinality(C16_Candidates(req.files.refusal)) = 2
    /\ pipeline.refusalText = <<"Ask", " ", "a", " ", "grown-up">>
    /\ C16_Refused
    /\ res.answer = pipeline.refusalText

\* the reason of the record a fatal Primary failure leaves
C18_Reason == <<"openai_error:">> \o openAi.message

\* C18: a Primary failure outside the quota class is answered 500 at once:
\* no request goes to the Secondary, logUnansweredQuestion is called exactly
\* once, with reason openai_error:<message of the failure>, right before the
\* response, and the log gets that record and no model_refusal or
\* safety_refusal record.
C18_FatalPrimaryFailure ==
    PrimaryFatal =>
        /\ pc = "done"
        /\ res.status = 500
        /\ gemini.state = "idle"
        /\ CallsTo("gemini") = <<>>
        /\ Len(events) = 2
        /\ events[1].kind = "log"
        /\ events[1].reason = C18_Reason
        /\ events[2] = SendEvent(500)
        /\ LoggedReasons = IF events[1].sink = "appended" THEN {C18_Reason} ELSE {}
        /\ Len(log) <= 1

\* the Primary answered HTTP 500 and the log holds the one record
C18_Witness ==
    /\ PrimaryFatal
    /\ Len(log) = 1
    /\ log[1].reason = <<"openai_error:", "OpenAI error ", "500", ": ",
                         "server", " ", "error">>
    /\ res.status = 500

\* the handler has read the body of a POST /api/chat request
BodyRead == ChatRequest /\ req.body.kind # "unread"

\* the body is not valid JSON, or it is JSON without a message or without a
\* character, or with one that is blank after trimming
C19_BadBody ==
    \/ req.body.kind = "invalid"
    \/ /\ req.body.kind \in {"null", "json"}
       /\ trim(req.body.message) = <<>> \/ trim(req.body.character) = <<>>

\* C19: a request whose body is not valid JSON, or whose message or
\* character is missing or blank after trimming, is answered 400, writes no
\* log record, loads no pipeline inputs and invokes no provider.
C19_InputErrorAnswered400 ==
    (BodyRead /\ C19_BadBody) =>
        /\ res.status = 400
        /\ log = <<>>
        /\ LogCalls = {}
        /\ pipeline = NoPipeline
        /\ ~ProviderInvoked
        /\ calls = <<>>

\* the path leads through own properties to a value: every key is a
\* property the object, or the array, before it holds itself
RECURSIVE C20_Resolves(_, _)
C20_Resolves(value, keys) ==
    IF keys = <<>> THEN TRUE
    ELSE IF value.type = "object" /\ Head(keys) \in DOMAIN value.fields
    THEN C20_Resolves(value.fields[Head(keys)], Tail(keys))
    ELSE IF value.type = "array" /\ arrayIndex(Head(keys)) \in 1..Len(value.items)
    THEN C20_Resolves(Str(value.items[arrayIndex(Head(keys))]), Tail(keys))
    ELSE FALSE

\* C20: renderTemplate puts the empty string in the place of every token
\* {{key}} or {{a.b.c}} whose key is absent, whose path has a missing
\* segment, or whose path passes through a value that is no object, so that
\* the output is the text around the token and holds no placeholder.
C20_UnresolvedTokenBecomesEmpty ==
    (builder.stage = "rendered"
     /\ ~C20_Resolves(Obj(builder.templateVars), builder.path)) =>
        /\ builder.rendered = builder.prefix \o builder.suffix
        /\ ~includes(builder.rendered, <<"{{">>)

\* every lexeme of the text is white space
C17_Blank(text) == \A k \in DOMAIN text : IsSpace(text[k])

C21_LoaderAlwaysReturns ==
    builder.stage = "loaded" => ~builder.primary.threw

(***************************************************************************)
(* C22                                                                     *)
(***************************************************************************)
\* the entries between the first and the last
Interior(s) == SubSeq(s, 2, Len(s) - 1)

\* the role the Secondary is to see for a role of the caller
C22_SecondaryRole(role) == IF role = "assistant" THEN "model" ELSE "user"

\* C22: both providers receive the caller's history as the same ordered
\* sequence of turns with the same contents, between the system instruction
\* and the current question: the Primary each turn as supplied, the
\* Secondary each turn with assistant mapped to model and every other role
\* to user, no turn dropped, added or reordered. Refuted by a turn that is
\* null, has no role or has an empty content: callGemini drops it.
C22_HistoryReachesBothProviders ==
    builder.stage = "secondary" =>
        LET history == builder.conversationHistory
        IN  /\ Interior(builder.messages) = history
            /\ Len(Interior(builder.contents)) = Len(history)
            /\ \A k \in 1..Len(history) :
                /\ Interior(builder.contents)[k].role
                        = C22_SecondaryRole(history[k].role)
                /\ Interior(builder.contents)[k].parts
                        = << [text |-> history[k].content] >>

(***************************************************************************)
(* C23                                                                     *)
(***************************************************************************)
\* C23: with several requests in flight, a provider call of one request that
\* never completes stalls only that request: every other request whose own
\* provider calls complete still reaches its response. Here for request "b",
\* validated and waiting for the Primary, all of whose awaits complete.
\* Refuted when request "a" has the body null: the exception that leaves its
\* handler is an unhandled rejection, and a process that terminates on it
\* answers "b" never.
C23_OtherRequestsStillAnswered ==
    (LocalsOf("b").pc = "openai") ~> (LocalsOf("b").res.status # 0)

(***************************************************************************)
(* C24                                                                     *)
(***************************************************************************)
\* C24: if every provider network call eventually completes, every POST
\* /api/chat request eventually receives a response. Refuted by the body
\* null and by an identity document that is null: the handler throws, no
\* provider call is pending, and no response is ever sent.
C24_EveryChatRequestAnswered == ChatRequest ~> (res.status # 0)

(***************************************************************************)
(* C25                                                                     *)
(***************************************************************************)
\* the positions of events at which a response was sent
Sends == {k \in 1..Len(events) : events[k].kind = "send"}

\* C25: on every path through handleChatRequest at most one response is sent:
\* a response is the last thing the handler does, so that after a 400, 404
\* or 500 no log record is written and no second response follows; the
\* response recorded is the one sent, and the handler has no step left.
C25_AtMostOneResponse ==
    /\ Cardinality(Sends) <= 1
    /\ \A k \in Sends : k = Len(events) /\ events[k].status = res.status
    /\ res.status # 0 => Sends # {} /\ pc = "done"
    /\ pc = "done" => ~ENABLED Next

\* both providers failed: the record was written, then the 500 was sent
C25_Witness ==
    /\ pc = "done"
    /\ res.status = 500
    /\ BothProvidersFailed
    /\ Len(events) = 2
    /\ events[1].kind = "log"
    /\ log # <<>>

(***************************************************************************)
(* C26                                                                     *)
(***************************************************************************)
\* positions in calls of the requests of one kind
C26_Calls(to, op, phase) ==
    {k \in DOMAIN calls :
        calls[k].to = to /\ calls[k].op = op /\ calls[k].phase = phase}

\* C26: per request the Primary is invoked at most once and the Secondary at
\* most once, the Secondary only after the Primary call has failed; one
\* callGemini invocation issues at most one generate request per candidate
\* model in the loop, at most one list-models query and at most one recovery
\* generate request.
C26_EachCallAtMostOnce ==
    LET primary  == C26_Calls("openai", "generate", "primary")
        loop     == C26_Calls("gemini", "generate", "loop")
        list     == C26_Calls("gemini", "list", "recovery")
        recovery == C26_Calls("gemini", "generate", "recovery")
        secondary == loop \cup list \cup recovery
    IN  /\ Cardinality(primary) <= 1
        /\ primary \cup secondary = DOMAIN calls
        /\ (gemini.state # "idle" \/ secondary # {}) =>
                /\ openAi.state = "rejected"
                /\ \A k \in primary : calls[k].outcome = "error"
                /\ \A k \in primary, j \in secondary : k < j
        /\ \A j, k \in loop : calls[j].model = calls[k].model => j = k
        /\ \A k \in loop : \E m \in DOMAIN gemini.models :
                calls[k].model = gemini.models[m]
        /\ Cardinality(list) <= 1
        /\ Cardinality(recovery) <= 1
        /\ \A k \in list, j \in recovery : k < j

\* the longest run of calls: the Primary failed, every candidate of the loop
\* answered 404, the list-models query named a model and the retry was sent
C26_Witness ==
    /\ pc = "done"
    /\ Cardinality(C26_Calls("openai", "generate", "primary")) = 1
    /\ Cardinality(C26_Calls("gemini", "generate", "loop")) = Len(gemini.models)
    /\ Len(gemini.models) = 4
    /\ Cardinality(C26_Calls("gemini", "list", "recovery")) = 1
    /\ Cardinality(C26_Calls("gemini", "generate", "recovery")) = 1

(***************************************************************************)
(* C27                                                                     *)
(***************************************************************************)
\* C27: text that renderTemplate inserts for a token is never itself scanned
\* for tokens: a question that contains {{context}} appears verbatim in the
\* rendered user prompt. Refuted: the second replace runs over the result of
\* the first, and its pattern [\w.]+ matches a token without dots as well, so
\* {{context}} inside the question is replaced by the context.
C27_InsertedTextIsNotRescanned ==
    (builder.stage \in {"built", "dispatched"}
        /\ builder.prompts.answer = PromptFiles.answer) =>
        includes(builder.prompt.user, <<"Q: ">> \o builder.input.question)

(***************************************************************************)
(* C28                                                                     *)
(***************************************************************************)
\* the logUnansweredQuestion calls a step added to the running invocation's
\* events whose line the file system accepted
C28_Appended(before, after) ==
    {k \in (Len(before) + 1)..Len(after) :
        after[k].kind = "log" /\ after[k].sink = "appended"}

\* a complete record line: all four fields are present
C28_Complete(line) ==
    /\ line.timestamp # <<>>
    /\ line.character # <<>>
    /\ line.message # <<>>
    /\ line.reason # <<>>

\* C28: under any interleaving of concurrent requests the log only grows. The
\* lines written earlier stay as they are, in their order; a step of the
\* running invocation adds exactly one complete record line for each of its
\* logUnansweredQuestion calls that the file system accepted and nothing for
\* the others; a switch to another invocation and the end of the process
\* leave the log alone.
C28_LogOnlyGrows ==
    [][ /\ Len(log') >= Len(log)
        /\ SubSeq(log', 1, Len(log)) = log
        /\ \A k \in (Len(log) + 1)..Len(log') : C28_Complete(log'[k])
        /\ IF server'.current = server.current /\ server'.alive = server.alive
           THEN Len(log') - Len(log) = Cardinality(C28_Appended(events, events'))
           ELSE log' = log ]_vars

\* two requests with different messages were served side by side and each left
\* its line, while a third call's append failed or no third call was made
C28_Witness ==
    /\ Len(log) = 2
    /\ log[1].message # log[2].message
    /\ LocalsOf("a").pc = "done"
    /\ LocalsOf("b").pc = "done"
    /\ LocalsOf("a").calls # <<>>
    /\ LocalsOf("b").calls # <<>>

(***************************************************************************)
(* C29                                                                     *)
(***************************************************************************)
\* C29: the shouldRefuse field of a 200 response is true exactly when no
\* provider was invoked for the request: neither callOpenAI nor callGemini was
\* called and no network request was sent. In particular it is false when the
\* answer is the refusal text because the provider's output matched it or
\* because applySafety substituted it.
C29_FlagMeansNoProvider ==
    res.status = 200 =>
        /\ res.shouldRefuse <=> ~ProviderInvoked
        /\ res.shouldRefuse <=> (calls = <<>>)
        /\ res.shouldRefuse = pipeline.prompt.shouldRefuse

\* a provider answered with something else, applySafety put the refusal text in
\* its place, and the response carries the refusal text with the flag false
C29_Witness ==
    /\ res.status = 200
    /\ ProviderInvoked
    /\ res.answer = pipeline.refusalText
    /\ rawAnswer # pipeline.refusalText
    /\ normalize(rawAnswer) # normalize(pipeline.refusalText)
    /\ ~res.shouldRefuse

=============================================================================
